---- MODULE Spec2Model ----
(***************************************************************************)
(* A model of the cpuwu hart (src/src/lib.rs): the register file, the      *)
(* flags word, the two-level MMU walk of check_memory, the flat memory     *)
(* backend SimpleAddress and the fetch-decode-dispatch of step().          *)
(*                                                                         *)
(* Representation.  TLC's integers are 32-bit signed, so a u32 is kept as  *)
(* a record [hi, lo] of its two 16-bit halves (value = hi * 2^16 + lo),    *)
(* and all u32 arithmetic is done on the halves with the width of the      *)
(* source.  The flags word is kept as the set of the bit positions that    *)
(* are 1 (a bijection with u32), an f32 register as its IEEE-754 bit       *)
(* pattern, and the backend's Vec<u8> as the function from the addresses   *)
(* that hold a non-zero byte to that byte.                                 *)
(***************************************************************************)
EXTENDS Integers, Sequences, FiniteSets, TLC

VARIABLES
    xs,               \* Cpu.xs: [0..15 -> u32]
    fs,               \* Cpu.fs: [0..15 -> f32 bit pattern]
    flags,            \* Cpu.flags: set of the bit positions that are 1
    memmap,           \* Cpu.memmap: u32
    memory,           \* Cpu.addressing (SimpleAddress.memory), non-zero bytes
    overflow_checks,  \* the build: TRUE = overflow checks on (debug/test profile)
    nan_sign,         \* the platform: the sign bit of a NaN an operation produces
    res,              \* what the last step() did: its Result, or the panic
    pre,              \* history: the hart as it was when the last step() began
    prev,             \* history: pre, ins and res of the step before the last
    ent,              \* history: the hart when the last step's operation was entered
    ins,              \* history: the opcode (and register byte) the last step decoded
    log,              \* history: the translations check_memory made in the last step, in order
    steps             \* number of step() calls made so far

vars == <<xs, fs, flags, memmap, memory, overflow_checks, nan_sign, res, pre, prev, ent, ins, log, steps>>

----------------------------------------------------------------------------
(* u32 as two 16-bit halves *)

W(h, l) == [hi |-> h, lo |-> l]

\* a literal below 2^31 as a u32
u32(n) == W(n \div 65536, n % 65536)

\* the four bytes of a u32: (x >> 8k) as u8
byte_of(w, k) ==
    CASE k = 0 -> w.lo % 256
      [] k = 1 -> w.lo \div 256
      [] k = 2 -> w.hi % 256
      [] k = 3 -> w.hi \div 256

\* b0 as u32 | (b1 as u32) << 8 | (b2 as u32) << 16 | (b3 as u32) << 24
le32(b0, b1, b2, b3) == W(b2 + 256 * b3, b0 + 256 * b1)

lt32(a, b) == a.hi < b.hi \/ (a.hi = b.hi /\ a.lo < b.lo)

RECURSIVE BitAnd(_, _)
BitAnd(a, b) ==
    IF a = 0 \/ b = 0 THEN 0
    ELSE (a % 2) * (b % 2) + 2 * BitAnd(a \div 2, b \div 2)

RECURSIVE BitOr(_, _)
BitOr(a, b) ==
    IF a = 0 THEN b
    ELSE IF b = 0 THEN a
    ELSE (IF a % 2 = 1 \/ b % 2 = 1 THEN 1 ELSE 0) + 2 * BitOr(a \div 2, b \div 2)

RECURSIVE BitXor(_, _)
BitXor(a, b) ==
    IF a = 0 THEN b
    ELSE IF b = 0 THEN a
    ELSE ((a + b) % 2) + 2 * BitXor(a \div 2, b \div 2)

and32(a, b) == W(BitAnd(a.hi, b.hi), BitAnd(a.lo, b.lo))
or32(a, b)  == W(BitOr(a.hi, b.hi), BitOr(a.lo, b.lo))
xor32(a, b) == W(BitXor(a.hi, b.hi), BitXor(a.lo, b.lo))
not32(a)    == W(65535 - a.hi, 65535 - a.lo)

\* a + b + c in 64-bit width, c in {0, 1}: the low 32 bits and bit 32
add64(a, b, c) ==
    LET lo == a.lo + b.lo + c
        hi == a.hi + b.hi + lo \div 65536
    IN  [v |-> W(hi % 65536, lo % 65536), ext |-> hi \div 65536]

\* u32 + u32: the wrapped sum, and whether the true sum left the width
add32(a, b) ==
    LET s == add64(a, b, 0) IN [v |-> s.v, ovf |-> s.ext # 0]

\* u32 - u32: the wrapped difference, and whether the true difference is negative
sub32(a, b) ==
    LET lo == a.lo - b.lo
        bl == IF lo < 0 THEN 1 ELSE 0
        hi == a.hi - b.hi - bl
    IN  [v |-> W(hi % 65536, lo % 65536), ovf |-> hi < 0]

\* (x as u64) << n for n < 32: the low 32 bits, and bits 32.. as a number
shl64(a, n) ==
    IF n < 16
    THEN LET l == a.lo * 2^n
             h == a.hi * 2^n + l \div 65536
         IN  [v |-> W(h % 65536, l % 65536), ext |-> h \div 65536]
    ELSE LET l == a.lo * 2^(n - 16)
         IN  [v |-> W(l % 65536, 0), ext |-> a.hi * 2^(n - 16) + l \div 65536]

\* (x as u64) >> n for n < 32
shr64(a, n) ==
    IF n < 16
    THEN [v |-> W(a.hi \div 2^n, a.lo \div 2^n + (a.hi % 2^n) * 2^(16 - n)), ext |-> 0]
    ELSE [v |-> W(0, a.hi \div 2^(n - 16)), ext |-> 0]

\* u32 * u32 by bytes: the wrapped product, and whether the true product left the width
RECURSIVE MulDigits(_, _, _, _)
MulDigits(a, b, k, carry) ==
    IF k > 7 THEN <<>>
    ELSE LET IJ == {i \in 0..3 : k - i \in 0..3}
             RECURSIVE Sum(_)
             Sum(S) == IF S = {} THEN 0
                       ELSE LET i == CHOOSE x \in S : TRUE
                            IN  byte_of(a, i) * byte_of(b, k - i) + Sum(S \ {i})
             t == Sum(IJ) + carry
         IN  <<t % 256>> \o MulDigits(a, b, k + 1, t \div 256)

mul32(a, b) ==
    LET d == MulDigits(a, b, 0, 0)
    IN  [v |-> le32(d[1], d[2], d[3], d[4]),
         ovf |-> d[5] # 0 \/ d[6] # 0 \/ d[7] # 0 \/ d[8] # 0]

\* bit i of a u32
bit32(a, i) == IF i < 16 THEN (a.lo \div 2^i) % 2 ELSE (a.hi \div 2^(i - 16)) % 2

\* the number of significant bits of n
RECURSIVE BitLen(_)
BitLen(n) == IF n = 0 THEN 0 ELSE 1 + BitLen(n \div 2)

Max(a, b) == IF a >= b THEN a ELSE b

\* u32 / u32 and u32 % u32 for a non-zero divisor below 2^15: long division by bytes
div_small(a, b) ==
    LET t3 == byte_of(a, 3)
        t2 == (t3 % b) * 256 + byte_of(a, 2)
        t1 == (t2 % b) * 256 + byte_of(a, 1)
        t0 == (t1 % b) * 256 + byte_of(a, 0)
    IN  [q |-> le32(t0 \div b, t1 \div b, t2 \div b, t3 \div b), r |-> u32(t0 % b)]

\* a quotient that is too small by a few units, and its remainder, made exact
RECURSIVE div_fix(_, _, _)
div_fix(q, r, b) ==
    IF lt32(r, b) THEN [q |-> q, r |-> r]
    ELSE div_fix(add32(q, u32(1)).v, sub32(r, b).v, b)

\* u32 / u32 and u32 % u32 for a divisor of 2^15 or more: the quotient is estimated
\* from the leading 15 bits of the divisor, from below, and then made exact
div_large(a, b) ==
    LET k  == (IF b.hi # 0 THEN 16 + BitLen(b.hi) ELSE 16) - 15
        sa == shr64(a, k).v
        qe == (sa.hi * 65536 + sa.lo) \div (shr64(b, k).v.lo + 1)
    IN  div_fix(u32(qe), sub32(a, mul32(b, u32(qe)).v).v, b)

divmod32(a, b) ==
    IF b.hi = 0 /\ b.lo < 32768 THEN div_small(a, b.lo) ELSE div_large(a, b)

div32(a, b) == divmod32(a, b).q
rem32(a, b) == divmod32(a, b).r

----------------------------------------------------------------------------
(* Constants of the source *)

READ  == 4
WRITE == 2
EXEC  == 1

F_ZERO          == 11
F_OVERFLOW      == 12
F_CARRY         == 13
F_NEGATIVE      == 14
F_PARITY        == 15
F_NAN           == 16
F_INFINITE      == 17
F_USER_RING     == 18
F_MEMMAP_ENABLE == 19

R_PC   == 13
R_BASE == 14
R_SP   == 15

SIMPLE_ADDRESS_SIZE == 16777216

----------------------------------------------------------------------------
(* Results.  InvalidMemoryAccess has two variants; a panic (an overflow     *)
(* under overflow checks, a division by zero, a todo!()) unwinds out of     *)
(* step() and is no Result at all.                                          *)

NoErr == <<"Ok">>
UsedFreePage == <<"UsedFreePage">>
InvalidPermissions(p, q) == <<"InvalidPermissions", p, q>>
PanicOverflow == <<"panic", "arithmetic overflow">>
PanicDivZero  == <<"panic", "attempt to divide by zero">>
PanicTodo     == <<"panic", "not yet implemented: interrupt on invalid access">>

IsPanic(e) == e[1] = "panic"

\* a method's outcome: the hart after it, the error (or NoErr) and the value returned
Ret(m, v)  == [m |-> m, err |-> NoErr, val |-> v]
Fail(m, e) == [m |-> m, err |-> e, val |-> 0]

\* Rust's `r?`: the outcome r itself when it is an error or a panic, and else
\* what K makes of it
Try(r, K(_)) == IF r.err # NoErr THEN r ELSE K(r)

\* a `let`: the value v under the name that K gives it
With(v, K(_)) == K(v)

\* Rust's `a + b` on u32: wraps when the build has no overflow checks, panics otherwise
Overflows(r) == r.ovf /\ overflow_checks

----------------------------------------------------------------------------
(* The memory backend, SimpleAddress *)

Idx(addr) == addr.hi * 65536 + addr.lo

address_read(mem, addr) ==
    IF lt32(addr, u32(SIMPLE_ADDRESS_SIZE))
    THEN (IF Idx(addr) \in DOMAIN mem THEN mem[Idx(addr)] ELSE 0)
    ELSE 0

address_write(mem, addr, data) ==
    IF lt32(addr, u32(SIMPLE_ADDRESS_SIZE))
    THEN (IF data = 0
          THEN [a \in DOMAIN mem \ {Idx(addr)} |-> mem[a]]
          ELSE [a \in DOMAIN mem \cup {Idx(addr)} |->
                   IF a = Idx(addr) THEN data ELSE mem[a]])
    ELSE mem

----------------------------------------------------------------------------
(* The MMU *)

\* the four little-endian bytes the walk reads at base + idx .. base + idx + 3
table_entry(m, base, idx) ==
    With(add32(base, idx), LAMBDA a0 :
    With(add32(a0.v, u32(1)), LAMBDA a1 :
    With(add32(a0.v, u32(2)), LAMBDA a2 :
    With(add32(a0.v, u32(3)), LAMBDA a3 :
        [v   |-> le32(address_read(m.memory, a0.v), address_read(m.memory, a1.v),
                      address_read(m.memory, a2.v), address_read(m.memory, a3.v)),
         ovf |-> a0.ovf \/ a1.ovf \/ a2.ovf \/ a3.ovf]))))

\* the end of the walk: sum is the second-level entry plus the page offset
check_permissions(addr, permissions, sum) ==
    LET p  == sum.v.hi \div 4096
        pa == W(sum.v.hi % 4096, sum.v.lo)
    IN  IF BitAnd(p, 8) = 0
        THEN [err |-> UsedFreePage, val |-> addr]
        ELSE IF BitAnd(p, permissions) # permissions
        THEN [err |-> InvalidPermissions(p, permissions), val |-> addr]
        ELSE [err |-> NoErr, val |-> pa]

\* a faulty check_memory that takes a top-level entry of 0 for an identity mapping
check_memory_free_identity(m, addr, permissions) ==
    IF F_MEMMAP_ENABLE \in m.flags
    THEN With(table_entry(m, m.memmap, u32(addr.hi \div 256)), LAMBDA table_addr :
         IF Overflows(table_addr) THEN [err |-> PanicOverflow, val |-> addr]
         ELSE IF table_addr.v = u32(0) THEN [err |-> NoErr, val |-> addr]
         ELSE With(table_entry(m, table_addr.v, u32(addr.hi % 256)), LAMBDA e :
              With(add32(e.v, W(0, addr.lo)), LAMBDA sum :
              IF Overflows(e) \/ Overflows(sum)
              THEN [err |-> PanicOverflow, val |-> addr]
              ELSE check_permissions(addr, permissions, sum))))
    ELSE [err |-> NoErr, val |-> addr]

\* a faulty check_memory that also walks the tables in the user ring
check_memory_user_ring(m, addr, permissions) ==
    IF F_MEMMAP_ENABLE \in m.flags \/ F_USER_RING \in m.flags
    THEN With(table_entry(m, m.memmap, u32(addr.hi \div 256)), LAMBDA table_addr :
         IF Overflows(table_addr) THEN [err |-> PanicOverflow, val |-> addr]
         ELSE IF table_addr.v = u32(0) THEN [err |-> UsedFreePage, val |-> addr]
         ELSE With(table_entry(m, table_addr.v, u32(addr.hi % 256)), LAMBDA e :
              With(add32(e.v, W(0, addr.lo)), LAMBDA sum :
              IF Overflows(e) \/ Overflows(sum)
              THEN [err |-> PanicOverflow, val |-> addr]
              ELSE check_permissions(addr, permissions, sum))))
    ELSE [err |-> NoErr, val |-> addr]

check_memory(m, addr, permissions) ==
    IF F_MEMMAP_ENABLE \in m.flags
    THEN With(table_entry(m, m.memmap, u32(addr.hi \div 256)), LAMBDA table_addr :
         IF Overflows(table_addr) THEN [err |-> PanicOverflow, val |-> addr]
         ELSE IF table_addr.v = u32(0) THEN [err |-> UsedFreePage, val |-> addr]
         ELSE With(table_entry(m, table_addr.v, u32(addr.hi % 256)), LAMBDA e :
              With(add32(e.v, W(0, addr.lo)), LAMBDA sum :
              IF Overflows(e) \/ Overflows(sum)
              THEN [err |-> PanicOverflow, val |-> addr]
              ELSE check_permissions(addr, permissions, sum))))
    ELSE [err |-> NoErr, val |-> addr]

\* the history of the step's translations: what check_memory was asked and what it answered
Logged(m, perm, va, c) ==
    [m EXCEPT !.log = Append(@, [perm |-> perm, va |-> va, pa |-> c.val, err |-> c.err])]

exec(m) ==
    With(check_memory(m, m.xs[R_PC], EXEC), LAMBDA c :
    IF c.err # NoErr THEN Fail(Logged(m, EXEC, m.xs[R_PC], c), c.err)
    ELSE With(add32(m.xs[R_PC], u32(1)), LAMBDA pc :
         IF Overflows(pc) THEN Fail(Logged(m, EXEC, m.xs[R_PC], c), PanicOverflow)
         ELSE Ret([Logged(m, EXEC, m.xs[R_PC], c) EXCEPT !.xs[R_PC] = pc.v],
                  address_read(m.memory, c.val))))

read(m, addr) ==
    With(check_memory(m, addr, READ), LAMBDA c :
    IF c.err # NoErr THEN Fail(Logged(m, READ, addr, c), c.err)
    ELSE Ret(Logged(m, READ, addr, c), address_read(m.memory, c.val)))

\* a faulty write that stores at the untranslated address when the translation fails
write_through(m, addr, data) ==
    With(check_memory(m, addr, WRITE), LAMBDA c :
    IF c.err # NoErr
    THEN Fail([Logged(m, WRITE, addr, c) EXCEPT
                  !.memory = address_write(m.memory, addr, data)], c.err)
    ELSE Ret([Logged(m, WRITE, addr, c) EXCEPT
                 !.memory = address_write(m.memory, c.val, data)], 0))

write(m, addr, data) ==
    With(check_memory(m, addr, WRITE), LAMBDA c :
    IF c.err # NoErr THEN Fail(Logged(m, WRITE, addr, c), c.err)
    ELSE Ret([Logged(m, WRITE, addr, c) EXCEPT
                 !.memory = address_write(m.memory, c.val, data)], 0))

\* (exec()? as u32) | (exec()? as u32) << 8 | (exec()? as u32) << 16 | (exec()? as u32) << 24:
\* the bytes fetched so far are acc
RECURSIVE exec_bytes(_, _)
exec_bytes(m, acc) ==
    IF Len(acc) = 4 THEN Ret(m, le32(acc[1], acc[2], acc[3], acc[4]))
    ELSE Try(exec(m), LAMBDA r : exec_bytes(r.m, Append(acc, r.val)))

exec32(m) == exec_bytes(m, <<>>)

----------------------------------------------------------------------------
(* Flags *)

\* a faulty clear_flags! that forgets the complement: self.flags &= (1 << f) | ...
keep_flags(f, S) == f \cap S

\* clear_flags!(self, f, ...): self.flags &= !((1 << f) | ...)
clear_flags(f, S) == f \ S

\* self.flags |= (val as u32) << flag
set_flag(f, flag, val) == IF val THEN f \cup {flag} ELSE f

get_flag(f, flag) == flag \in f

\* a faulty set_carry that writes the whole flags word
set_carry_whole_word(m, val) ==
    [m EXCEPT !.flags = IF val THEN {F_CARRY} ELSE {}]

set_carry(m, val) ==
    [m EXCEPT !.flags = set_flag(clear_flags(@, {F_CARRY}), F_CARRY, val)]

set_user_ring(m, val) ==
    IF ~get_flag(m.flags, F_USER_RING)
    THEN Ret([m EXCEPT !.flags = set_flag(clear_flags(@, {F_USER_RING}), F_USER_RING, val)], 0)
    ELSE Fail(m, PanicTodo)

\* a faulty set_memmap_enable that does not look at the ring
set_memmap_enable_any_ring(m, val) ==
    Ret([m EXCEPT !.flags = set_flag(clear_flags(@, {F_MEMMAP_ENABLE}), F_MEMMAP_ENABLE, val)], 0)

set_memmap_enable(m, val) ==
    IF ~get_flag(m.flags, F_USER_RING)
    THEN Ret([m EXCEPT !.flags = set_flag(clear_flags(@, {F_MEMMAP_ENABLE}), F_MEMMAP_ENABLE, val)], 0)
    ELSE Fail(m, PanicTodo)

----------------------------------------------------------------------------
(* Control flow *)

\* x >> 8 and x << 8 on u32
shr8(w) == W(w.hi \div 256, (w.hi % 256) * 256 + w.lo \div 256)
\* a faulty x << 8 that shifts by sixteen
shl8_twice(w) == W(w.lo, 0)
shl8(w) == W((w.hi % 256) * 256 + w.lo \div 256, (w.lo % 256) * 256)

\* one of call's loops: n times { write(xs[SP], data as u8)?; data >>= 8; xs[SP] -= 1 }
RECURSIVE push_bytes(_, _, _)
push_bytes(m, data, n) ==
    IF n = 0 THEN Ret(m, 0)
    ELSE Try(write(m, m.xs[R_SP], byte_of(data, 0)), LAMBDA w :
         With(sub32(w.m.xs[R_SP], u32(1)), LAMBDA sp :
         IF Overflows(sp) THEN Fail(w.m, PanicOverflow)
         ELSE push_bytes([w.m EXCEPT !.xs[R_SP] = sp.v], shr8(data), n - 1)))

\* a faulty call that pushes the return PC before the saved BASE
call_pc_first(m) ==
    Try(exec32(m), LAMBDA a :
    Try(push_bytes(a.m, a.m.xs[R_PC], 4), LAMBDA p1 :
    Try(push_bytes(p1.m, p1.m.xs[R_BASE], 4), LAMBDA p2 :
        Ret([p2.m EXCEPT !.xs[R_BASE] = p2.m.xs[R_SP], !.xs[R_PC] = a.val], 0))))

call(m) ==
    Try(exec32(m), LAMBDA a :
    Try(push_bytes(a.m, a.m.xs[R_BASE], 4), LAMBDA p1 :
    Try(push_bytes(p1.m, p1.m.xs[R_PC], 4), LAMBDA p2 :
        Ret([p2.m EXCEPT !.xs[R_BASE] = p2.m.xs[R_SP], !.xs[R_PC] = a.val], 0))))

\* ret's first loop: n times { xs[BASE] += 1; xs[PC] <<= 8; xs[PC] |= read(xs[BASE])? }
RECURSIVE pop_pc(_, _)
pop_pc(m, n) ==
    IF n = 0 THEN Ret(m, 0)
    ELSE With(add32(m.xs[R_BASE], u32(1)), LAMBDA b :
         IF Overflows(b) THEN Fail(m, PanicOverflow)
         ELSE Try(read([m EXCEPT !.xs[R_BASE] = b.v, !.xs[R_PC] = shl8(@)], b.v), LAMBDA r :
              pop_pc([r.m EXCEPT !.xs[R_PC] = or32(@, u32(r.val))], n - 1)))

\* ret's second loop: n times { xs[BASE] += 1; data <<= 8; data |= read(xs[BASE])? }
RECURSIVE pop_data(_, _, _)
pop_data(m, data, n) ==
    IF n = 0 THEN Ret(m, data)
    ELSE With(add32(m.xs[R_BASE], u32(1)), LAMBDA b :
         IF Overflows(b) THEN Fail(m, PanicOverflow)
         ELSE Try(read([m EXCEPT !.xs[R_BASE] = b.v], b.v), LAMBDA r :
              pop_data(r.m, or32(shl8(data), u32(r.val)), n - 1)))

\* a faulty ret that leaves SP where the callee left it
ret_keeps_sp(m) ==
    Try(pop_pc([m EXCEPT !.xs[R_PC] = u32(0)], 4), LAMBDA p1 :
    Try(pop_data(p1.m, u32(0), 4), LAMBDA p2 :
        Ret([p2.m EXCEPT !.xs[R_BASE] = p2.val], 0)))

ret(m) ==
    Try(pop_pc([m EXCEPT !.xs[R_PC] = u32(0)], 4), LAMBDA p1 :
    Try(pop_data(p1.m, u32(0), 4), LAMBDA p2 :
        Ret([p2.m EXCEPT !.xs[R_SP] = p2.m.xs[R_BASE], !.xs[R_BASE] = p2.val], 0)))

branch_true(m, flag) ==
    Try(exec32(m), LAMBDA a :
        IF get_flag(a.m.flags, flag) THEN Ret([a.m EXCEPT !.xs[R_PC] = a.val], 0)
        ELSE Ret(a.m, 0))

\* a faulty branch_false that branches when the flag is set
branch_false_when_set(m, flag) ==
    Try(exec32(m), LAMBDA a :
        IF get_flag(a.m.flags, flag) THEN Ret([a.m EXCEPT !.xs[R_PC] = a.val], 0)
        ELSE Ret(a.m, 0))

branch_false(m, flag) ==
    Try(exec32(m), LAMBDA a :
        IF ~get_flag(a.m.flags, flag) THEN Ret([a.m EXCEPT !.xs[R_PC] = a.val], 0)
        ELSE Ret(a.m, 0))

----------------------------------------------------------------------------
(* Integer ALU *)

\* bit 31 of a u32: x & 0x80000000 != 0
sign32(w) == w.hi >= 32768

\* a faulty update_flags_int that sets Z, N and P without clearing them first
update_flags_int_no_clear(f, x) ==
    set_flag(set_flag(set_flag(f,
        F_ZERO, x = u32(0)),
        F_NEGATIVE, sign32(x)),
        F_PARITY, x.lo % 2 = 1)

update_flags_int(f, x) ==
    set_flag(set_flag(set_flag(clear_flags(f, {F_ZERO, F_NEGATIVE, F_PARITY}),
        F_ZERO, x = u32(0)),
        F_NEGATIVE, sign32(x)),
        F_PARITY, x.lo % 2 = 1)

\* a faulty iadd that leaves the entry carry out of the sum
iadd_no_carry_in(m, x0, x1) ==
    LET r  == add64(m.xs[x0], m.xs[x1], 0)
        f0 == clear_flags(m.flags, {F_ZERO, F_OVERFLOW, F_CARRY, F_NEGATIVE, F_PARITY})
        f1 == set_flag(f0, F_ZERO, r.v = u32(0))
        f2 == set_flag(f1, F_NEGATIVE, sign32(r.v))
        f3 == set_flag(f2, F_CARRY, r.ext % 2 = 1)
        f4 == set_flag(f3, F_OVERFLOW,
                       sign32(m.xs[x0]) = sign32(m.xs[x1]) /\ sign32(m.xs[x0]) # sign32(r.v))
        f5 == set_flag(f4, F_PARITY, r.v.lo % 2 = 1)
    IN  [m EXCEPT !.flags = f5, !.xs[x0] = r.v]

iadd(m, x0, x1) ==
    LET r  == add64(m.xs[x0], m.xs[x1], IF get_flag(m.flags, F_CARRY) THEN 1 ELSE 0)
        f0 == clear_flags(m.flags, {F_ZERO, F_OVERFLOW, F_CARRY, F_NEGATIVE, F_PARITY})
        f1 == set_flag(f0, F_ZERO, r.v = u32(0))
        f2 == set_flag(f1, F_NEGATIVE, sign32(r.v))
        f3 == set_flag(f2, F_CARRY, r.ext % 2 = 1)
        f4 == set_flag(f3, F_OVERFLOW,
                       sign32(m.xs[x0]) = sign32(m.xs[x1]) /\ sign32(m.xs[x0]) # sign32(r.v))
        f5 == set_flag(f4, F_PARITY, r.v.lo % 2 = 1)
    IN  [m EXCEPT !.flags = f5, !.xs[x0] = r.v]

isub(m, x0, x1) ==
    LET m1 == [m EXCEPT !.xs[x1] = not32(@)]
        m2 == iadd(m1, x0, x1)
    IN  [m2 EXCEPT !.xs[x1] = not32(@)]

imul(m, x0, x1) ==
    With(mul32(m.xs[x0], m.xs[x1]), LAMBDA r :
        IF Overflows(r) THEN Fail(m, PanicOverflow)
        ELSE Ret([m EXCEPT !.xs[x0] = r.v, !.flags = update_flags_int(@, r.v)], 0))

idiv(m, x0, x1) ==
    IF m.xs[x1] = u32(0) THEN Fail(m, PanicDivZero)
    ELSE With(div32(m.xs[x0], m.xs[x1]), LAMBDA q :
         Ret([m EXCEPT !.xs[x0] = q, !.flags = update_flags_int(@, q)], 0))

imod(m, x0, x1) ==
    IF m.xs[x1] = u32(0) THEN Fail(m, PanicDivZero)
    ELSE With(rem32(m.xs[x0], m.xs[x1]), LAMBDA q :
         Ret([m EXCEPT !.xs[x0] = q, !.flags = update_flags_int(@, q)], 0))

\* a shift amount below 32 as a number
amount(w) == w.lo

\* a faulty bsl that sets C from bit 32 for every shift amount
bsl_carry_any_amount(m, x0, x1) ==
    LET c  == IF get_flag(m.flags, F_CARRY) THEN 1 ELSE 0
        sh == IF lt32(m.xs[x1], u32(32)) THEN shl64(m.xs[x0], amount(m.xs[x1]))
              ELSE [v |-> u32(0), ext |-> 0]
        r  == [v |-> or32(sh.v, u32(c)), ext |-> sh.ext]
        f0 == clear_flags(m.flags, {F_ZERO, F_CARRY, F_NEGATIVE, F_PARITY})
        f1 == set_flag(f0, F_ZERO, r.v = u32(0))
        f2 == set_flag(f1, F_NEGATIVE, sign32(r.v))
        f3 == set_flag(f2, F_CARRY, r.ext % 2 = 1)
        f4 == set_flag(f3, F_PARITY, r.v.lo % 2 = 1)
    IN  [m EXCEPT !.flags = f4, !.xs[x0] = r.v]

bsl(m, x0, x1) ==
    LET c  == IF get_flag(m.flags, F_CARRY) THEN 1 ELSE 0
        sh == IF lt32(m.xs[x1], u32(32)) THEN shl64(m.xs[x0], amount(m.xs[x1]))
              ELSE [v |-> u32(0), ext |-> 0]
        r  == [v |-> or32(sh.v, u32(c)), ext |-> sh.ext]
        f0 == clear_flags(m.flags, {F_ZERO, F_CARRY, F_NEGATIVE, F_PARITY})
        f1 == set_flag(f0, F_ZERO, r.v = u32(0))
        f2 == set_flag(f1, F_NEGATIVE, sign32(r.v))
        f3 == IF m.xs[x1] = u32(1) THEN set_flag(f2, F_CARRY, r.ext % 2 = 1) ELSE f2
        f4 == set_flag(f3, F_PARITY, r.v.lo % 2 = 1)
    IN  [m EXCEPT !.flags = f4, !.xs[x0] = r.v]

\* a faulty bsr that does not OR the entry carry into the result
bsr_no_carry_in(m, x0, x1) ==
    LET sh == IF lt32(m.xs[x1], u32(32)) THEN shr64(m.xs[x0], amount(m.xs[x1]))
              ELSE [v |-> u32(0), ext |-> 0]
        r  == [v |-> sh.v, ext |-> sh.ext]
        f0 == clear_flags(m.flags, {F_ZERO, F_CARRY, F_NEGATIVE, F_PARITY})
        f1 == set_flag(f0, F_ZERO, r.v = u32(0))
        f2 == set_flag(f1, F_NEGATIVE, sign32(r.v))
        f3 == IF m.xs[x1] = u32(1) THEN set_flag(f2, F_CARRY, m.xs[x0].lo % 2 = 1) ELSE f2
        f4 == set_flag(f3, F_PARITY, r.v.lo % 2 = 1)
    IN  [m EXCEPT !.flags = f4, !.xs[x0] = r.v]

bsr(m, x0, x1) ==
    LET c  == IF get_flag(m.flags, F_CARRY) THEN 1 ELSE 0
        sh == IF lt32(m.xs[x1], u32(32)) THEN shr64(m.xs[x0], amount(m.xs[x1]))
              ELSE [v |-> u32(0), ext |-> 0]
        r  == [v |-> or32(sh.v, u32(c)), ext |-> sh.ext]
        f0 == clear_flags(m.flags, {F_ZERO, F_CARRY, F_NEGATIVE, F_PARITY})
        f1 == set_flag(f0, F_ZERO, r.v = u32(0))
        f2 == set_flag(f1, F_NEGATIVE, sign32(r.v))
        f3 == IF m.xs[x1] = u32(1) THEN set_flag(f2, F_CARRY, m.xs[x0].lo % 2 = 1) ELSE f2
        f4 == set_flag(f3, F_PARITY, r.v.lo % 2 = 1)
    IN  [m EXCEPT !.flags = f4, !.xs[x0] = r.v]

and(m, x0, x1) ==
    LET v == and32(m.xs[x0], m.xs[x1])
    IN  [m EXCEPT !.xs[x0] = v, !.flags = update_flags_int(@, v)]

or(m, x0, x1) ==
    LET v == or32(m.xs[x0], m.xs[x1])
    IN  [m EXCEPT !.xs[x0] = v, !.flags = update_flags_int(@, v)]

xor(m, x0, x1) ==
    LET v == xor32(m.xs[x0], m.xs[x1])
    IN  [m EXCEPT !.xs[x0] = v, !.flags = update_flags_int(@, v)]

move_int(m, x0, x1) ==
    LET v == m.xs[x1]
    IN  [m EXCEPT !.xs[x0] = v, !.flags = update_flags_int(@, v)]


----------------------------------------------------------------------------
(* Loads and stores *)

\* addr + k as the source writes it (k = 0 is addr itself)
offset(addr, k) == IF k = 0 THEN [v |-> addr, ovf |-> FALSE] ELSE add32(addr, u32(k))

\* (read(addr)? as u32) | (read(addr + 1)? as u32) << 8 | ... | (read(addr + 3)? as u32) << 24
RECURSIVE read_bytes(_, _, _, _)
read_bytes(m, addr, k, acc) ==
    IF k = 4 THEN Ret(m, le32(acc[1], acc[2], acc[3], acc[4]))
    ELSE With(offset(addr, k), LAMBDA a :
         IF Overflows(a) THEN Fail(m, PanicOverflow)
         ELSE Try(read(m, a.v), LAMBDA r :
              read_bytes(r.m, addr, k + 1, Append(acc, r.val))))

read32(m, addr) == read_bytes(m, addr, 0, <<>>)

\* write(addr, data as u8)?; write(addr + 1, (data >> 8) as u8)?; ... for n bytes
RECURSIVE write_bytes(_, _, _, _, _)
write_bytes(m, addr, data, k, n) ==
    IF k = n THEN Ret(m, 0)
    ELSE With(offset(addr, k), LAMBDA a :
         IF Overflows(a) THEN Fail(m, PanicOverflow)
         ELSE Try(write(m, a.v, byte_of(data, k)), LAMBDA w :
              write_bytes(w.m, addr, data, k + 1, n)))

load_lit_int(m, x0) ==
    Try(exec32(m), LAMBDA d :
        Ret([d.m EXCEPT !.xs[x0] = d.val, !.flags = update_flags_int(@, d.val)], 0))

\* a faulty load_int that sets the flags from the address before it reads
load_int_flags_first(m, x0) ==
    Try(exec32(m), LAMBDA a :
    Try(read32([a.m EXCEPT !.flags = update_flags_int(@, a.val)], a.val), LAMBDA d :
        Ret([d.m EXCEPT !.xs[x0] = d.val, !.flags = update_flags_int(@, d.val)], 0)))

load_int(m, x0) ==
    Try(exec32(m), LAMBDA a :
    Try(read32(a.m, a.val), LAMBDA d :
        Ret([d.m EXCEPT !.xs[x0] = d.val, !.flags = update_flags_int(@, d.val)], 0)))

load_indirect_int(m, x0, addr) ==
    Try(read32(m, m.xs[addr]), LAMBDA d :
        Ret([d.m EXCEPT !.xs[x0] = d.val, !.flags = update_flags_int(@, d.val)], 0))

store_indirect_int(m, x0, addr)   == write_bytes(m, m.xs[addr], m.xs[x0], 0, 4)
store_indirect_short(m, x0, addr) == write_bytes(m, m.xs[addr], m.xs[x0], 0, 2)
store_indirect_byte(m, x0, addr)  == write_bytes(m, m.xs[addr], m.xs[x0], 0, 1)

\* a faulty store_int that writes the high half of the value first
store_int_high_first(m, x0) ==
    Try(exec32(m), LAMBDA a :
        write_bytes(a.m, a.val, W(a.m.xs[x0].lo, a.m.xs[x0].hi), 0, 4))

store_int(m, x0) ==
    Try(exec32(m), LAMBDA a : write_bytes(a.m, a.val, a.m.xs[x0], 0, 4))

store_short(m, x0) ==
    Try(exec32(m), LAMBDA a : write_bytes(a.m, a.val, a.m.xs[x0], 0, 2))

\* a faulty store_byte that writes two bytes
store_byte_two_wide(m, x0) ==
    Try(exec32(m), LAMBDA a : write_bytes(a.m, a.val, a.m.xs[x0], 0, 2))

store_byte(m, x0) ==
    Try(exec32(m), LAMBDA a : write_bytes(a.m, a.val, a.m.xs[x0], 0, 1))

----------------------------------------------------------------------------
(* f32 on bit patterns: sign (1), exponent (8), fraction (23).  The         *)
(* arithmetic is IEEE-754 binary32 with round-to-nearest-even, computed     *)
(* exactly on the integer significands.  An operation with a NaN operand    *)
(* leaves that operand, quieted, with its sign and payload; when both are   *)
(* NaN, += and *= leave the second operand's and -= and /= the first's.     *)
(* The bits of a NaN that an operation makes                                *)
(* from operands that are no NaN are not fixed by the language: the result  *)
(* is the quiet NaN of payload 0 with the sign the platform gives it        *)
(* (nan_sign).                                                              *)

f_sign(w) == w.hi \div 32768
f_exp(w)  == (w.hi \div 128) % 256
f_frac(w) == (w.hi % 128) * 65536 + w.lo
f_pack(s, e, frac) == W(s * 32768 + e * 128 + frac \div 65536, frac % 65536)

is_nan(w)      == f_exp(w) = 255 /\ f_frac(w) # 0
is_infinite(w) == f_exp(w) = 255 /\ f_frac(w) = 0
is_zero(w)     == f_exp(w) = 0 /\ f_frac(w) = 0
f_nan          == f_pack(nan_sign, 255, 2^22)
f_inf(s)       == f_pack(s, 255, 0)

\* a NaN with its quiet bit (bit 22) set, sign and payload kept
f_quiet(w) == f_pack(f_sign(w), 255, IF f_frac(w) < 2^22 THEN f_frac(w) + 2^22 ELSE f_frac(w))

\* the NaN that an operation leaves whose machine instruction has a as its
\* first operand and b as its second: a NaN operand, quieted (a's when both
\* are NaN), or the NaN the platform makes when neither is one
f_nan_of(a, b) ==
    IF is_nan(a) THEN f_quiet(a) ELSE IF is_nan(b) THEN f_quiet(b) ELSE f_nan
f_zero(s)      == f_pack(s, 0, 0)

\* a finite value is f_sig * 2^f_e
f_sig(w) == IF f_exp(w) = 0 THEN f_frac(w) ELSE f_frac(w) + 2^23
f_e(w)   == IF f_exp(w) = 0 THEN -149 ELSE f_exp(w) - 150

\* the f32 of sign s, exponent field q + 150 and 24-bit significand t, where
\* rounding may have carried t to 2^24, or left it denormal (below 2^23, q = -149)
pack_rounded(s, q, t) ==
    IF t = 2^24 THEN (IF q + 151 >= 255 THEN f_inf(s) ELSE f_pack(s, q + 151, 0))
    ELSE IF t < 2^23 THEN f_pack(s, 0, t)
    ELSE IF q + 150 >= 255 THEN f_inf(s)
    ELSE f_pack(s, q + 150, t - 2^23)

\* sig * 2^e with the last sh bits rounded away, ties to even (2^31 is no number here)
round_shift(s, sig, q, sh, sticky) ==
    IF sh <= 0 THEN pack_rounded(s, q, sig * 2^(-sh))
    ELSE With(IF sh >= 31 THEN 0 ELSE sig \div 2^sh, LAMBDA t :
         With(IF sh >= 31 THEN sig ELSE sig % 2^sh, LAMBDA rem :
              IF /\ sh < 32
                 /\ \/ rem > 2^(sh - 1)
                    \/ rem = 2^(sh - 1) /\ (sticky \/ t % 2 = 1)
              THEN pack_rounded(s, q, t + 1)
              ELSE pack_rounded(s, q, t)))

\* the f32 nearest to (sig + x) * 2^e, ties to even; sig < 2^31, and sticky says
\* a non-zero x < 1 was dropped (then sig has 26 bits or more)
round_pack(s, sig, e, sticky) ==
    IF sig = 0 THEN f_zero(s)
    ELSE With(Max(e + BitLen(sig) - 24, -149), LAMBDA q :
              round_shift(s, sig, q, q - e, sticky))

\* |a| >= |b| for finite a, b
mag_ge(a, b) == f_exp(a) > f_exp(b) \/ (f_exp(a) = f_exp(b) /\ f_frac(a) >= f_frac(b))

\* the sum or difference of the aligned significands A >= B, of exponent e
add_round(sa, sb, A, B, e, st) ==
    IF sa = sb THEN round_pack(sa, A + B, e, st)
    ELSE IF A = B /\ ~st THEN f_zero(0)
    ELSE round_pack(sa, A - B - (IF st THEN 1 ELSE 0), e, st)

\* a + b for finite non-zero a, b with |a| >= |b|: three guard bits under a's last
\* place, b shifted right by d - 3
add_mags(a, b) ==
    With(f_e(a) - f_e(b), LAMBDA d :
        add_round(f_sign(a), f_sign(b), f_sig(a) * 8,
                  IF d <= 3 THEN f_sig(b) * 2^(3 - d)
                  ELSE IF d - 3 >= 24 THEN 0 ELSE f_sig(b) \div 2^(d - 3),
                  f_e(a) - 3,
                  IF d <= 3 THEN FALSE
                  ELSE IF d - 3 >= 24 THEN TRUE ELSE f_sig(b) % 2^(d - 3) # 0))

\* += is compiled with its operands exchanged: of two NaN operands the second stays
f32_add(a, b) ==
    IF is_nan(a) \/ is_nan(b) THEN f_nan_of(b, a)
    ELSE IF is_infinite(a)
    THEN (IF is_infinite(b) /\ f_sign(a) # f_sign(b) THEN f_nan ELSE a)
    ELSE IF is_infinite(b) THEN b
    ELSE IF is_zero(a) /\ is_zero(b)
    THEN (IF f_sign(a) = f_sign(b) THEN a ELSE f_zero(0))
    ELSE IF is_zero(a) THEN b
    ELSE IF is_zero(b) THEN a
    ELSE IF mag_ge(a, b) THEN add_mags(a, b) ELSE add_mags(b, a)

f_neg(w) == f_pack(1 - f_sign(w), f_exp(w), f_frac(w))

f32_sub(a, b) ==
    IF is_nan(a) \/ is_nan(b) THEN f_nan_of(a, b) ELSE f32_add(a, f_neg(b))

\* the 48-bit product of two significands as hi * 2^24 + lo, by 12-bit limbs
mul_sig(x, y) ==
    LET x1 == x \div 4096
        x0 == x % 4096
        y1 == y \div 4096
        y0 == y % 4096
        cross == x1 * y0 + x0 * y1
        low   == x0 * y0 + (cross % 4096) * 4096
    IN  [hi |-> x1 * y1 + cross \div 4096 + low \div 2^24, lo |-> low % 2^24]

\* the product p of the significands, of exponent e: k of its bits are dropped to keep 29
mul_round(s, p, k, e) ==
    IF k <= 0 THEN round_pack(s, p.hi * 2^24 + p.lo, e, FALSE)
    ELSE round_pack(s, p.hi * 2^(24 - k) + p.lo \div 2^k, e + k, p.lo % 2^k # 0)

\* *= is compiled with its operands exchanged: of two NaN operands the second stays
f32_mul(a, b) ==
    With((f_sign(a) + f_sign(b)) % 2, LAMBDA s :
        IF is_nan(a) \/ is_nan(b) THEN f_nan_of(b, a)
        ELSE IF is_infinite(a) \/ is_infinite(b)
        THEN (IF is_zero(a) \/ is_zero(b) THEN f_nan ELSE f_inf(s))
        ELSE IF is_zero(a) \/ is_zero(b) THEN f_zero(s)
        ELSE With(mul_sig(f_sig(a), f_sig(b)), LAMBDA p :
                  mul_round(s, p, BitLen(p.hi) - 5, f_e(a) + f_e(b))))

\* 27 more quotient bits of r / d after the integer bit q
RECURSIVE div_bits(_, _, _, _)
div_bits(q, r, d, n) ==
    IF n = 0 THEN [q |-> q, r |-> r]
    ELSE IF 2 * r >= d THEN div_bits(2 * q + 1, 2 * r - d, d, n - 1)
    ELSE div_bits(2 * q, 2 * r, d, n - 1)

\* a / b for finite non-zero a, b: la and lb left shifts normalise the significands
div_round(s, a, b, la, lb) ==
    With(div_bits((f_sig(a) * 2^la) \div (f_sig(b) * 2^lb),
                  (f_sig(a) * 2^la) % (f_sig(b) * 2^lb), f_sig(b) * 2^lb, 27), LAMBDA d :
         round_pack(s, d.q, (f_e(a) - la) - (f_e(b) - lb) - 27, d.r # 0))

f32_div(a, b) ==
    With((f_sign(a) + f_sign(b)) % 2, LAMBDA s :
        IF is_nan(a) \/ is_nan(b) THEN f_nan_of(a, b)
        ELSE IF is_infinite(a) THEN (IF is_infinite(b) THEN f_nan ELSE f_inf(s))
        ELSE IF is_infinite(b) THEN f_zero(s)
        ELSE IF is_zero(b) THEN (IF is_zero(a) THEN f_nan ELSE f_inf(s))
        ELSE IF is_zero(a) THEN f_zero(s)
        ELSE div_round(s, a, b, 24 - BitLen(f_sig(a)), 24 - BitLen(f_sig(b))))

\* `x as u32` for an f32: truncation toward zero, saturating, NaN to 0
f32_to_u32(w) ==
    IF is_nan(w) \/ f_sign(w) = 1 \/ f_exp(w) < 127 THEN u32(0)
    ELSE IF f_exp(w) >= 159 THEN W(65535, 65535)
    ELSE IF f_exp(w) >= 150 THEN shl64(u32(f_sig(w)), f_exp(w) - 150).v
    ELSE u32(f_sig(w) \div 2^(150 - f_exp(w)))

\* `x as f32` for a u32: the nearest f32, ties to even
u32_to_f32(x) ==
    IF x.hi >= 2^14
    THEN round_pack(0, x.hi * 2^14 + x.lo \div 4, 2, x.lo % 4 # 0)
    ELSE round_pack(0, x.hi * 65536 + x.lo, 0, FALSE)

update_flags_float(f, x) ==
    set_flag(set_flag(set_flag(set_flag(
        clear_flags(f, {F_ZERO, F_NEGATIVE, F_NAN, F_INFINITE}),
        F_ZERO, is_zero(x)),
        F_NEGATIVE, f_sign(x) = 1),
        F_NAN, is_nan(x)),
        F_INFINITE, is_infinite(x))

fadd(m, f0, f1) ==
    With(f32_add(m.fs[f0], m.fs[f1]), LAMBDA v :
        [m EXCEPT !.fs[f0] = v, !.flags = update_flags_float(@, v)])

fsub(m, f0, f1) ==
    With(f32_sub(m.fs[f0], m.fs[f1]), LAMBDA v :
        [m EXCEPT !.fs[f0] = v, !.flags = update_flags_float(@, v)])

fmul(m, f0, f1) ==
    With(f32_mul(m.fs[f0], m.fs[f1]), LAMBDA v :
        [m EXCEPT !.fs[f0] = v, !.flags = update_flags_float(@, v)])

fdiv(m, f0, f1) ==
    With(f32_div(m.fs[f0], m.fs[f1]), LAMBDA v :
        [m EXCEPT !.fs[f0] = v, !.flags = update_flags_float(@, v)])

move_float(m, x0, x1) ==
    LET v == m.fs[x1]
    IN  [m EXCEPT !.fs[x0] = v, !.flags = update_flags_float(@, v)]

move_int_float(m, x0, f1) ==
    With(f32_to_u32(m.fs[f1]), LAMBDA v :
        [m EXCEPT !.xs[x0] = v, !.flags = update_flags_int(@, v)])

move_float_int(m, f0, x1) ==
    With(u32_to_f32(m.xs[x1]), LAMBDA v :
        [m EXCEPT !.fs[f0] = v, !.flags = update_flags_float(@, v)])

\* to_bits and from_bits keep the bit pattern
transmute_int_float(m, x0, f1) ==
    LET v == m.fs[f1]
    IN  [m EXCEPT !.xs[x0] = v, !.flags = update_flags_int(@, v)]

transmute_float_int(m, f0, x1) ==
    LET v == m.xs[x1]
    IN  [m EXCEPT !.fs[f0] = v, !.flags = update_flags_float(@, v)]

load_lit_float(m, f0) ==
    Try(exec32(m), LAMBDA d :
        Ret([d.m EXCEPT !.fs[f0] = d.val, !.flags = update_flags_float(@, d.val)], 0))

load_float(m, f0) ==
    Try(exec32(m), LAMBDA a :
    Try(read32(a.m, a.val), LAMBDA d :
        Ret([d.m EXCEPT !.fs[f0] = d.val, !.flags = update_flags_float(@, d.val)], 0)))

load_indirect_float(m, f0, addr) ==
    Try(read32(m, m.xs[addr]), LAMBDA d :
        Ret([d.m EXCEPT !.fs[f0] = d.val, !.flags = update_flags_float(@, d.val)], 0))

store_indirect_float(m, f0, addr) == write_bytes(m, m.xs[addr], m.fs[f0], 0, 4)

store_float(m, f0) ==
    Try(exec32(m), LAMBDA a : write_bytes(a.m, a.val, a.m.fs[f0], 0, 4))

----------------------------------------------------------------------------
(* Decode and step *)

NoIns == [opcode |-> -1, regs |-> <<>>]

\* history only: the opcode and register operands decoded, and the registers and
\* flags with which the operation is entered
Entered(m, opcode, regs) ==
    [m EXCEPT !.ins = [opcode |-> opcode, regs |-> regs],
              !.ent = [xs |-> m.xs, fs |-> m.fs, flags |-> m.flags]]

\* the flag that the branch opcodes 0x08..0x0f and 0x10..0x17 test
branch_flag(sub) ==
    CASE sub \in {8, 16}  -> F_ZERO
      [] sub \in {9, 17}  -> F_OVERFLOW
      [] sub \in {10, 18} -> F_CARRY
      [] sub \in {11, 19} -> F_NEGATIVE
      [] sub \in {12, 20} -> F_PARITY
      [] sub \in {13, 21} -> F_NAN
      [] sub \in {14, 22} -> F_INFINITE
      [] sub \in {15, 23} -> F_MEMMAP_ENABLE

\* a faulty no_operand in which 0x04 returns the hart to the system ring
no_operand_ring_clear(m, sub) ==
    CASE sub = 0 -> Ret(set_carry(m, FALSE), 0)
      [] sub = 1 -> Ret(set_carry(m, TRUE), 0)
      [] sub \in {2, 3} -> set_memmap_enable(m, sub = 3)
      [] sub = 4 -> Ret([m EXCEPT !.flags = clear_flags(@, {F_USER_RING})], 0)
      [] sub = 5 -> set_user_ring(m, TRUE)
      [] sub = 6 -> call(m)
      [] sub = 7 -> ret(m)
      [] sub \in 8..15  -> branch_true(m, branch_flag(sub))
      [] sub \in 16..23 -> branch_false(m, branch_flag(sub))
      [] OTHER -> Ret(m, 0)

\* 0b00xxxxxx: no arguments
no_operand(m, sub) ==
    CASE sub = 0 -> Ret(set_carry(m, FALSE), 0)
      [] sub = 1 -> Ret(set_carry(m, TRUE), 0)
      [] sub \in {2, 3} -> set_memmap_enable(m, sub = 3)
      [] sub = 5 -> set_user_ring(m, TRUE)
      [] sub = 6 -> call(m)
      [] sub = 7 -> ret(m)
      [] sub \in 8..15  -> branch_true(m, branch_flag(sub))
      [] sub \in 16..23 -> branch_false(m, branch_flag(sub))
      [] OTHER -> Ret(m, 0)

\* 0b01xxyyyy data: one register argument and 32 bit data
load_operand(m, sel, data) ==
    CASE sel = 0 -> load_lit_int(m, data)
      [] sel = 1 -> load_lit_float(m, data)
      [] sel = 2 -> load_int(m, data)
      [] sel = 3 -> load_float(m, data)

\* 0b10xxxxxx 0byyyyzzzz: two register arguments
two_registers(m, sub, fst, snd) ==
    CASE sub = 0 -> Ret(iadd(m, fst, snd), 0)
      [] sub = 1 -> Ret(isub(m, fst, snd), 0)
      [] sub = 2 -> imul(m, fst, snd)
      [] sub = 3 -> idiv(m, fst, snd)
      [] sub = 4 -> imod(m, fst, snd)
      [] sub = 5 -> Ret(fadd(m, fst, snd), 0)
      [] sub = 6 -> Ret(fsub(m, fst, snd), 0)
      [] sub = 7 -> Ret(fmul(m, fst, snd), 0)
      [] sub = 8 -> Ret(fdiv(m, fst, snd), 0)
      [] sub = 9  -> Ret(bsl(m, fst, snd), 0)
      [] sub = 10 -> Ret(bsr(m, fst, snd), 0)
      [] sub = 11 -> Ret(and(m, fst, snd), 0)
      [] sub = 12 -> Ret(or(m, fst, snd), 0)
      [] sub = 13 -> Ret(xor(m, fst, snd), 0)
      [] sub = 14 -> Ret(move_int(m, fst, snd), 0)
      [] sub = 15 -> Ret(move_float(m, fst, snd), 0)
      [] sub = 16 -> Ret(move_int_float(m, fst, snd), 0)
      [] sub = 17 -> Ret(move_float_int(m, fst, snd), 0)
      [] sub = 18 -> Ret(transmute_int_float(m, fst, snd), 0)
      [] sub = 19 -> Ret(transmute_float_int(m, fst, snd), 0)
      [] sub = 20 -> load_indirect_int(m, fst, snd)
      [] sub = 21 -> load_indirect_float(m, fst, snd)
      [] sub = 22 -> store_indirect_int(m, fst, snd)
      [] sub = 23 -> store_indirect_short(m, fst, snd)
      [] sub = 24 -> store_indirect_byte(m, fst, snd)
      [] sub = 25 -> store_indirect_float(m, fst, snd)
      [] OTHER -> Ret(m, 0)

\* 0b11xxyyyy data: one register argument and 32 bit data
store_operand(m, sel, data) ==
    CASE sel = 0 -> store_int(m, data)
      [] sel = 1 -> store_short(m, data)
      [] sel = 2 -> store_byte(m, data)
      [] sel = 3 -> store_float(m, data)

\* the second byte of a two-register instruction
register_byte(m, opcode) ==
    Try(exec(Entered(m, opcode, <<>>)), LAMBDA d :
        two_registers(Entered(d.m, opcode, <<d.val \div 16, d.val % 16>>),
                      opcode % 64, d.val \div 16, d.val % 16))

decode_instruction(m, opcode) ==
    CASE opcode \div 64 = 0 -> no_operand(Entered(m, opcode, <<>>), opcode % 64)
      [] opcode \div 64 = 1 -> load_operand(Entered(m, opcode, <<opcode % 16>>),
                                            (opcode \div 16) % 4, opcode % 16)
      [] opcode \div 64 = 2 -> register_byte(m, opcode)
      [] opcode \div 64 = 3 -> store_operand(Entered(m, opcode, <<opcode % 16>>),
                                             (opcode \div 16) % 4, opcode % 16)

step(m) == Try(exec(m), LAMBDA o : decode_instruction(o.m, o.val))

----------------------------------------------------------------------------------------------------------------------------------------
(* The state machine: a hart and the host that calls step() on it.  The     *)
(* host builds the hart with Cpu::new, fills the backend's memory and the   *)
(* public fields, and then calls step() repeatedly.                         *)

MaxSteps == 2

\* the bytes of a u32, low byte first
le_bytes(w) == <<byte_of(w, 0), byte_of(w, 1), byte_of(w, 2), byte_of(w, 3)>>

\* a memory image: P is a set of <<address, bytes>>, a later address of a
\* sequence holding its next byte
Cells(P) == UNION {{<<p[1] + i - 1, p[2][i]>> : i \in 1..Len(p[2])} : p \in P}

MemOf(P) ==
    LET C == {c \in Cells(P) : c[2] # 0}
    IN  [a \in {c[1] : c \in C} |-> (CHOOSE c \in C : c[1] = a)[2]]

\* a register file: register i holds f[i] where f is defined, and 0 elsewhere
Regs(f) == [i \in 0..15 |-> IF i \in DOMAIN f THEN f[i] ELSE u32(0)]

NoRes == <<"None">>

\* the history variables before the first step()
Fresh ==
    /\ res = NoRes
    /\ pre = [xs |-> xs, fs |-> fs, flags |-> flags, memmap |-> memmap, memory |-> memory]
    /\ prev = [pre |-> pre, ins |-> NoIns, res |-> NoRes]
    /\ ent = [xs |-> xs, fs |-> fs, flags |-> flags]
    /\ ins = NoIns
    /\ log = <<>>
    /\ steps = 0

Vals == {u32(0), u32(1), u32(5), u32(32), W(1, 0), W(32767, 65535), W(32768, 0),
         W(65535, 65535)}

\* 0, -0, 1, -2.5, the least denormal, the greatest finite, infinity, the quiet
\* NaN of payload 0, and a negative signalling NaN of payload 1
FVals == {W(0, 0), W(32768, 0), W(16256, 0), W(49184, 0), W(0, 1), W(32639, 65535),
          W(32640, 0), W(32704, 0), W(65408, 1)}

CodeBase == 4660       \* 0x1234

IntSubs   == {0, 1, 2, 3, 4, 9, 10, 11, 12, 13, 14, 20, 22, 23, 24, 26, 63}
FloatSubs == {5, 6, 7, 8, 15, 16, 17, 18, 19, 21, 25}
RegPairs  == {<<0, 1>>, <<0, 0>>, <<R_PC, 1>>, <<1, R_PC>>}

AluFlags == {{}, {F_CARRY}, {F_ZERO, F_OVERFLOW, F_NEGATIVE, F_PARITY, 0, 31}}

\* two copies of one two-register instruction, the second behind the first
AluCode(sub, rp) ==
    {<<CodeBase, <<128 + sub, rp[1] * 16 + rp[2], 128 + sub, rp[1] * 16 + rp[2]>>>>,
     <<0, <<17, 34, 0, 128, 85>>>>}

InitAlu ==
    \E sub \in IntSubs, rp \in RegPairs, a \in Vals, b \in Vals, f \in AluFlags :
        /\ rp[1] = R_PC => a = u32(0)
        /\ rp[2] \in {R_PC, rp[1]} => b = u32(0)
        /\ xs = Regs((R_PC :> u32(CodeBase)) @@ (rp[1] :> a) @@ (rp[2] :> b))
        /\ fs = [i \in 0..15 |-> u32(0)]
        /\ flags = f
        /\ memmap = u32(0)
        /\ memory = MemOf(AluCode(sub, rp))
        /\ overflow_checks \in BOOLEAN
        /\ nan_sign = 0
        /\ Fresh

InitFloat ==
    \E sub \in FloatSubs, rp \in {<<0, 1>>, <<0, 0>>}, a \in FVals, b \in FVals,
       f \in {{}, {F_CARRY, F_ZERO, F_NEGATIVE, F_NAN, F_INFINITE}} :
        /\ rp[2] = rp[1] => b = u32(0)
        /\ xs = Regs((R_PC :> u32(CodeBase)) @@ (rp[1] :> a) @@ (rp[2] :> b))
        /\ fs = Regs((rp[1] :> a) @@ (rp[2] :> b))
        /\ flags = f
        /\ memmap = u32(0)
        /\ memory = MemOf(AluCode(sub, rp))
        /\ overflow_checks = TRUE
        /\ nan_sign \in {0, 1}
        /\ Fresh

\* opcodes that take no register byte: all of the first form that the decoder
\* names and two it does not, and loads and stores of x0, x2 and the PC
CtlOpcodes == (0..25) \cup {63}
              \cup {64, 66, 77, 80, 96, 109, 112}
              \cup {192, 205, 208, 224, 240}

\* immediates: a backed address that holds a RET, the first address with no
\* backing, an address whose four bytes run off the end of u32, and the code itself
Imms == {W(0, 44866), W(256, 0), W(65535, 65534), W(0, CodeBase + 2)}

CtlFlags == {{}, {F_CARRY}, {F_ZERO, F_OVERFLOW, F_CARRY, F_NEGATIVE, F_PARITY,
                             F_NAN, F_INFINITE, 9, 20},
             {F_USER_RING}, {F_USER_RING, F_ZERO, F_NAN, 0, 31}}

\* <<SP, BASE>>: a backed stack; a stack with no backing; a stack whose last byte
\* is at address 0; a stack that runs off both ends of u32; a stack on the code
Frames == {<<W(0, 49096), W(0, 49088)>>, <<W(256, 16), W(0, 49151)>>,
           <<W(0, 7), W(0, 49088)>>, <<W(0, 3), W(65535, 65532)>>,
           <<W(0, CodeBase + 4), W(255, 65534)>>}

\* the instruction with its immediate, a RET where the first immediate points, and
\* at 0xBFC1..0xBFC8 a frame as a CALL from 0x1234 with BASE = 0xBFFF leaves it
CtlCode(op, imm) ==
    {<<CodeBase, <<op>> \o le_bytes(imm) \o <<7>>>>,
     <<44866, <<7>>>>,
     <<49089, <<0, 0, 18, 57, 0, 0, 191, 255>>>>}

InitCtl ==
    \E op \in CtlOpcodes, imm \in Imms, f \in CtlFlags, fr \in Frames :
        /\ xs = Regs((R_PC :> u32(CodeBase)) @@ (R_SP :> fr[1]) @@ (R_BASE :> fr[2])
                     @@ (0 :> W(57005, 48879)) @@ (2 :> W(0, 258)))
        /\ fs = Regs(0 :> W(16256, 0))
        /\ flags = f
        /\ memmap = u32(0)
        /\ memory = MemOf(CtlCode(op, imm))
        /\ overflow_checks \in BOOLEAN
        /\ nan_sign = 0
        /\ Fresh

\* the MMU scenarios: the top-level table at TopTable, its entry 0 naming the
\* second-level table t2, whose entries 0, 4 and 8 map the page of the code, of
\* the data and of the stack (an entry is indexed by byte, so neighbours overlap)
TopTable    == W(0, 8192)     \* 0x2000
SecondTable == W(0, 12288)    \* 0x3000
MmuPc       == W(0, 16)       \* virtual; frame 0x5000 by default
StackEntry  == W(57344, 36864)    \* 0xE0009000: present, read, write

StackEntries == {StackEntry,
                 W(40960, 36864),  \* 0xA0009000: present, write
                 W(49152, 36864)}  \* 0xC0009000: present, read

CodeEntries == {W(36864, 20480),   \* 0x90005000: present, exec
                W(61440, 20480),   \* 0xF0005000: present, read, write, exec
                W(32768, 20480),   \* 0x80005000: present only
                W(4096, 20480),    \* 0x10005000: exec, not present
                W(32767, 65528),   \* 0x7FFFFFF8: entry + offset carries into bit 31
                W(36863, 65520),   \* 0x8FFFFFF0: entry + offset carries into the nibble
                W(65535, 65528)}   \* 0xFFFFFFF8: entry + offset leaves u32

DataEntries == {W(57344, 60928),   \* 0xE000EE00: present, read, write
                W(40960, 60928),   \* 0xA000EE00: present, write
                W(49152, 60928),   \* 0xC000EE00: present, read
                W(24576, 60928),   \* 0x6000EE00: read, write, not present
                W(0, 0),
                W(53247, 65535),   \* 0xCFFFFFFF
                W(65535, 65535),
                W(32767, 65360)}   \* 0x7FFFFF50

\* <<top-level entry, code entry, data entry, stack entry>>
Tables ==
    {<<SecondTable, c, W(57344, 60928), StackEntry>> : c \in CodeEntries}
    \cup {<<SecondTable, W(36864, 20480), d, StackEntry>> : d \in DataEntries}
    \cup {<<SecondTable, W(36864, 20480), W(57344, 60928), e>> : e \in StackEntries}
    \cup {<<t, W(36864, 20480), W(57344, 60928), StackEntry>> :
              t \in {u32(0), W(65535, 65534)}}

\* three addresses in the data page, and one whose top-level entry (the bytes at
\* memmap + 2 .. memmap + 5) is 0
DataAddrs == {W(4, 188), W(4, 65535), W(4, 1), W(516, 188)}

\* load, store, store byte, call, ret, the flag instructions followed by a load,
\* an indirect load and store through x1, a load into the PC, the branches on M,
\* a store followed by a load of the same address, direct and indirect, and a
\* two-register opcode that the decoder does not name
MmuPrograms(v) ==
    {<<96>> \o le_bytes(v), <<192>> \o le_bytes(v), <<224>> \o le_bytes(v),
     <<6>> \o le_bytes(v), <<7>>, <<2, 96>> \o le_bytes(v), <<3, 96>> \o le_bytes(v),
     <<4, 2>>, <<5, 96>> \o le_bytes(v), <<148, 1>>, <<150, 1>>,
     <<109>> \o le_bytes(v), <<15>> \o le_bytes(v), <<23>> \o le_bytes(v),
     <<192>> \o le_bytes(v) \o <<98>> \o le_bytes(v), <<150, 1, 148, 33>>,
     <<154, 1>>}

MmuImage(t, prog, pc) ==
    {<<Idx(TopTable), le_bytes(t[1])>>,
     <<Idx(SecondTable), le_bytes(t[2])>>,
     <<Idx(SecondTable) + 4, le_bytes(t[3])>>,
     <<Idx(SecondTable) + 8, le_bytes(t[4])>>,
     <<Idx(pc), prog>>,
     <<20480 + Idx(pc), prog>>,
     <<61116, <<120, 86, 52, 18>>>>,
     <<37105, <<0, 4, 0, 188, 0, 8, 1, 0>>>>}

\* the PC at the start: in the code page, or at one of its last two bytes,
\* where the page that follows is not present
MmuPcs == {MmuPc, W(0, 65534), W(0, 65535)}

InitMmu ==
    \E t \in Tables, v \in DataAddrs, r \in {{}, {F_USER_RING}}, pc \in MmuPcs :
      \E prog \in MmuPrograms(v) :
        /\ pc # MmuPc => t = <<SecondTable, W(36864, 20480), W(57344, 60928), StackEntry>>
        /\ xs = Regs((R_PC :> pc) @@ (R_SP :> W(8, 256)) @@ (R_BASE :> W(8, 240))
                     @@ (0 :> W(57005, 48879)) @@ (1 :> v))
        /\ fs = Regs(0 :> W(16256, 0))
        /\ flags = {F_MEMMAP_ENABLE} \cup r
        /\ memmap = TopTable
        /\ memory = MemOf(MmuImage(t, prog, pc))
        /\ overflow_checks \in BOOLEAN
        /\ nan_sign = 0
        /\ Fresh

\* CALL and RET under translation, as <<SP, tables>>: the stack in a page that
\* the backend holds; the stack in a page whose frame is 0x01000000, behind the
\* backend; and a stack across 0x01000000 whose two pages (0x00ff, entry
\* 0xE0000000 at SecondTable + 0xff, and 0x0100, entry 0xE000FFFC in the table
\* at 0x30 that the top-level entry 1 names) translate to the same four bytes
StackCases ==
    {<<W(8, 256), {<<Idx(SecondTable) + 8, le_bytes(StackEntry)>>}>>,
     <<W(8, 256), {<<Idx(SecondTable) + 8, le_bytes(W(57600, 0))>>}>>,
     <<W(256, 3), {<<Idx(SecondTable) + 255, le_bytes(W(57344, 0))>>,
                   <<48, le_bytes(W(57344, 65532))>>}>>}

\* the code page holds CALL 0x40 at the PC and RET at 0x40
InitStack ==
    \E c \in StackCases, r \in {{}, {F_USER_RING}} :
        /\ xs = Regs((R_PC :> MmuPc) @@ (R_SP :> c[1]) @@ (R_BASE :> W(8, 240))
                     @@ (0 :> W(57005, 48879)))
        /\ fs = Regs(0 :> W(16256, 0))
        /\ flags = {F_MEMMAP_ENABLE} \cup r
        /\ memmap = TopTable
        /\ memory = MemOf(c[2] \cup
                          {<<Idx(TopTable), le_bytes(SecondTable)>>,
                           <<Idx(SecondTable), le_bytes(W(36864, 20480))>>,
                           <<20480 + Idx(MmuPc), <<6>> \o le_bytes(W(0, 64))>>,
                           <<20480 + 64, <<7>>>>})
        /\ overflow_checks \in BOOLEAN
        /\ nan_sign = 0
        /\ Fresh

\* the store and load scenarios without translation: an address in the backend,
\* the last word of the backend, a word across its end, the first word behind
\* it, and the last word of u32
MemAddrs == {W(0, 65280), W(255, 65532), W(255, 65534), W(256, 0), W(65535, 65532)}

\* store_int of x0 then load_int into x1 at the same address, and
\* store_indirect_int of x0 then load_indirect_int into x1 through x2
MemPrograms(p) ==
    {<<192>> \o le_bytes(p) \o <<97>> \o le_bytes(p), <<150, 2, 148, 18>>}

\* the bytes 11 22 33 44 at p, as far as the backend holds them
MemData(p) ==
    {<<Idx(add32(p, u32(k)).v), <<17 * (k + 1)>>>> :
        k \in {j \in 0 .. 3 : lt32(add32(p, u32(j)).v, u32(SIMPLE_ADDRESS_SIZE))}}

\* the scenarios start with no flag set and memmap = 0, or with the reserved
\* flag bits 3 and 27 set and memmap naming a table that is not used
InitMem ==
    \E p \in MemAddrs, v \in Vals \cup {W(41136, 49360)}, f \in {{}, {3, 27}} :
      \E prog \in MemPrograms(p) :
        /\ xs = Regs((R_PC :> u32(CodeBase)) @@ (0 :> v) @@ (1 :> W(4660, 22136))
                     @@ (2 :> p))
        /\ fs = [i \in 0..15 |-> u32(0)]
        /\ flags = f
        /\ memmap = IF f = {} THEN u32(0) ELSE TopTable
        /\ memory = MemOf({<<CodeBase, prog>>} \cup MemData(p))
        /\ overflow_checks \in BOOLEAN
        /\ nan_sign = 0
        /\ Fresh

Init == InitAlu \/ InitFloat \/ InitCtl \/ InitMmu \/ InitMem \/ InitStack

Hart ==
    [xs |-> xs, fs |-> fs, flags |-> flags, memmap |-> memmap, memory |-> memory,
     log |-> <<>>, ins |-> NoIns, ent |-> [xs |-> xs, fs |-> fs, flags |-> flags]]

\* the hart after a step() that ended as r; a panic leaves it as it was when it
\* struck (the host may catch the unwind and go on)
Stepped(r) ==
    /\ xs' = r.m.xs
    /\ fs' = r.m.fs
    /\ flags' = r.m.flags
    /\ memmap' = r.m.memmap
    /\ memory' = r.m.memory
    /\ res' = r.err
    /\ pre' = [xs |-> xs, fs |-> fs, flags |-> flags, memmap |-> memmap, memory |-> memory]
    /\ prev' = [pre |-> pre, ins |-> ins, res |-> res]
    /\ ent' = r.m.ent
    /\ ins' = r.m.ins
    /\ log' = r.m.log
    /\ steps' = steps + 1
    /\ UNCHANGED <<overflow_checks, nan_sign>>

\* the opcode that step() fetches has the form k: opcode & 0xc0 = k << 6
Fetches(k) ==
    /\ exec(Hart).err = NoErr
    /\ exec(Hart).val \div 64 = k

\* step() whose opcode fetch fails
StepFetchFault ==
    /\ steps < MaxSteps
    /\ exec(Hart).err # NoErr
    /\ Stepped(step(Hart))

\* step() on an instruction with no operand
StepNoOperand ==
    /\ steps < MaxSteps
    /\ Fetches(0)
    /\ Stepped(step(Hart))

\* step() on a load that names its register in the opcode and carries 32 bit data
StepLoadOperand ==
    /\ steps < MaxSteps
    /\ Fetches(1)
    /\ Stepped(step(Hart))

\* step() on an instruction with a register byte
StepTwoRegisters ==
    /\ steps < MaxSteps
    /\ Fetches(2)
    /\ Stepped(step(Hart))

\* step() on a store that names its register in the opcode and carries 32 bit data
StepStoreOperand ==
    /\ steps < MaxSteps
    /\ Fetches(3)
    /\ Stepped(step(Hart))

Next ==
    \/ StepFetchFault
    \/ StepNoOperand
    \/ StepLoadOperand
    \/ StepTwoRegisters
    \/ StepStoreOperand

Spec == Init /\ [][Next]_vars

----------------------------------------------------------------------------
(* Properties.  A state after a step carries the step's history: pre (the    *)
(* hart before the step), ent (the hart when the operation was entered, the  *)
(* opcode and its register byte fetched), ins, log and res.                  *)

\* the last step decoded the two-register opcode op and entered its operation
Ran2(op) == steps >= 1 /\ ins.opcode = op /\ Len(ins.regs) = 2

X0 == ins.regs[1]
X1 == ins.regs[2]
CarryIn == IF F_CARRY \in ent.flags THEN 1 ELSE 0

\* a + b + c on 32 bits, by halves: the low 32 bits, and whether a + b + c >= 2^32
SumLo(a, b, c) == a.lo + b.lo + c
SumHi(a, b, c) == a.hi + b.hi + SumLo(a, b, c) \div 65536
Sum32(a, b, c) == W(SumHi(a, b, c) % 65536, SumLo(a, b, c) % 65536)
Carries(a, b, c) == SumHi(a, b, c) >= 65536

ArithFlags == {F_ZERO, F_OVERFLOW, F_CARRY, F_NEGATIVE, F_PARITY}

\* the five arithmetic flags that IADD is specified to leave for a + b + c
AddFlags(a, b, c) ==
    {k \in ArithFlags :
        \/ k = F_ZERO /\ Sum32(a, b, c) = u32(0)
        \/ k = F_NEGATIVE /\ Sum32(a, b, c).hi >= 32768
        \/ k = F_CARRY /\ Carries(a, b, c)
        \/ k = F_OVERFLOW /\ (a.hi >= 32768) = (b.hi >= 32768)
                          /\ (a.hi >= 32768) # (Sum32(a, b, c).hi >= 32768)
        \/ k = F_PARITY /\ Sum32(a, b, c).lo % 2 = 1}

\* C1: after IADD(x0, x1) entered with a = xs[x0], b = xs[x1] and carry C,
\* xs[x0] is (a + b + C) mod 2^32, C is set iff a + b + C >= 2^32, V iff a and b
\* agree in bit 31 and the result differs, Z iff the result is 0, N iff its bit
\* 31 is set, P iff its bit 0 is set.
IaddCorrect ==
    Ran2(128) =>
        /\ res = NoErr
        /\ xs[X0] = Sum32(ent.xs[X0], ent.xs[X1], CarryIn)
        /\ flags \cap ArithFlags = AddFlags(ent.xs[X0], ent.xs[X1], CarryIn)

\* an IADD of 0xffffffff and 0 with the carry set: the sum wraps to 0 and carries out
IaddCarryChain ==
    /\ Ran2(128)
    /\ CarryIn = 1
    /\ ent.xs[X0] = W(65535, 65535)
    /\ ent.xs[X1] = u32(0)
    /\ xs[X0] = u32(0)
    /\ {F_CARRY, F_ZERO} \subseteq flags

\* C2: ISUB(x0, x1) entered with C = 1, for any x0 and x1 (x0 = x1 included),
\* leaves in xs[x0] and the flags what IADD produces from the original xs[x0]
\* and the complement of the original xs[x1] with C = 1, and for x0 # x1 leaves
\* xs[x1] as it was.
IsubByComplement ==
    (Ran2(129) /\ CarryIn = 1) =>
        /\ xs[X0] = Sum32(ent.xs[X0], not32(ent.xs[X1]), 1)
        /\ flags \cap ArithFlags = AddFlags(ent.xs[X0], not32(ent.xs[X1]), 1)
        /\ (X0 # X1 => xs[X1] = ent.xs[X1])

\* the same, for distinct registers only
IsubDistinctRegisters ==
    (Ran2(129) /\ CarryIn = 1 /\ X0 # X1) =>
        /\ xs[X0] = Sum32(ent.xs[X0], not32(ent.xs[X1]), 1)
        /\ flags \cap ArithFlags = AddFlags(ent.xs[X0], not32(ent.xs[X1]), 1)
        /\ xs[X1] = ent.xs[X1]


\* the hart as it was before the step before the last
PrevHart ==
    [xs |-> prev.pre.xs, fs |-> prev.pre.fs, flags |-> prev.pre.flags,
     memmap |-> prev.pre.memmap, memory |-> prev.pre.memory, log |-> <<>>,
     ins |-> NoIns,
     ent |-> [xs |-> prev.pre.xs, fs |-> prev.pre.fs, flags |-> prev.pre.flags]]

\* the last two steps were a CALL and then a RET, and neither failed
CallThenRet ==
    /\ steps >= 2
    /\ prev.ins.opcode = 6 /\ prev.res = NoErr
    /\ ins.opcode = 7 /\ res = NoErr

\* PC, BASE and SP before the CALL
PC0 == prev.pre.xs[R_PC]
BASE0 == prev.pre.xs[R_BASE]
SP0 == prev.pre.xs[R_SP]

\* the CALL's opcode and immediate, and the RET at the target
CodeBytes == {add32(PC0, u32(k)).v : k \in 0 .. 4} \cup {pre.xs[R_PC]}
\* the eight bytes at SP-7 .. SP
StackBytes == {sub32(SP0, u32(k)).v : k \in 0 .. 7}

Restored ==
    /\ xs[R_PC] = add32(PC0, u32(5)).v
    /\ xs[R_BASE] = BASE0
    /\ xs[R_SP] = SP0

\* the translations of the eight pushes of the CALL and of the eight pops of
\* the RET
Pushes == SelectSeq(step(PrevHart).m.log, LAMBDA e : e.perm = WRITE)
Pops   == SelectSeq(log, LAMBDA e : e.perm = READ)

\* the eight stack bytes are eight bytes of the 16 MiB backend: the push and
\* the pop of each translate to the same physical address below 2^24, and no
\* two of them to the same one (with M = 0 this is 7 <= SP < 2^24)
StackBacked ==
    /\ Len(Pushes) = 8 /\ Len(Pops) = 8
    /\ \A k \in 1 .. 8 :
           /\ Pops[k].pa = Pushes[9 - k].pa
           /\ lt32(Pushes[k].pa, u32(SIMPLE_ADDRESS_SIZE))
    /\ \A j, k \in 1 .. 8 : j # k => Pushes[j].pa # Pushes[k].pa

\* C3 (as stated): when the code bytes and the eight stack bytes at SP-7..SP
\* are disjoint and all accesses succeed, CALL target followed by RET at
\* target leaves PC just after the CALL's immediate and BASE and SP as they
\* were before the CALL.
CallRetSymmetry == (CallThenRet /\ CodeBytes \cap StackBytes = {}) => Restored

\* C3 (amended): the same, with M = 0 and with M = 1, when moreover the eight
\* stack bytes are eight bytes of the memory backend.
CallRetSymmetryBacked ==
    (CallThenRet /\ CodeBytes \cap StackBytes = {} /\ StackBacked) => Restored

\* a CALL and its RET under translation over a backed stack: the frame is in
\* the physical page 0x9000 and the registers are back
CallRetRoundTrip ==
    /\ CallThenRet
    /\ CodeBytes \cap StackBytes = {}
    /\ StackBacked
    /\ F_MEMMAP_ENABLE \in prev.pre.flags
    /\ Pushes[1].va = W(8, 256) /\ Pushes[1].pa = W(0, 37120)
    /\ Restored
    /\ PC0 # xs[R_PC]

\* the same with translation off
CallRetRoundTripUntranslated ==
    /\ CallThenRet
    /\ CodeBytes \cap StackBytes = {}
    /\ StackBacked
    /\ F_MEMMAP_ENABLE \notin prev.pre.flags
    /\ Restored
    /\ PC0 # xs[R_PC]

\* the ways a CALL and its RET, both Ok and with the code off the stack, do
\* not bring the registers back: the stack behind the backend with M = 0 and
\* with M = 1, and under translation two stack bytes that are one byte
CallRetLost ==
    CallThenRet /\ CodeBytes \cap StackBytes = {} /\ ~Restored
CallRetLostUntranslated ==
    CallRetLost /\ F_MEMMAP_ENABLE \notin prev.pre.flags
CallRetLostBehindBackend ==
    /\ CallRetLost /\ F_MEMMAP_ENABLE \in prev.pre.flags
    /\ \A k \in 1 .. 8 : ~lt32(Pushes[k].pa, u32(SIMPLE_ADDRESS_SIZE))
CallRetLostAliased ==
    /\ CallRetLost /\ F_MEMMAP_ENABLE \in prev.pre.flags
    /\ \A k \in 1 .. 8 :
           /\ Pops[k].pa = Pushes[9 - k].pa
           /\ lt32(Pushes[k].pa, u32(SIMPLE_ADDRESS_SIZE))
    /\ Pushes[1].pa = Pushes[5].pa

\* the walk of virtual address v over the tables held in memory mem: the
\* top-level entry, the second-level entry E read little-endian from
\* t2 + ((v >> 16) & 0xff), the top four bits of E and E & 0x0fffffff
TopEntry(mem, v) == table_entry([memory |-> mem], pre.memmap, u32(v.hi \div 256)).v
SecondEntry(mem, v) == table_entry([memory |-> mem], TopEntry(mem, v), u32(v.hi % 256)).v
Nibble(v) == SecondEntry(pre.memory, v).hi \div 4096
FrameBase(v) == W(SecondEntry(pre.memory, v).hi % 4096, SecondEntry(pre.memory, v).lo)

\* the eight table bytes of v's walk lie below 2^32
EntriesInRange(v) ==
    /\ ~table_entry([memory |-> pre.memory], pre.memmap, u32(v.hi \div 256)).ovf
    /\ ~table_entry([memory |-> pre.memory], TopEntry(pre.memory, v), u32(v.hi % 256)).ovf

\* the last step ran with translation on; its i-th translation walked tables
\* that the step's own stores left alone, found a non-zero top-level entry and
\* read a second-level entry
Walked(i) ==
    /\ steps >= 1
    /\ F_MEMMAP_ENABLE \in pre.flags
    /\ TopEntry(pre.memory, log[i].va) # u32(0)
    /\ EntriesInRange(log[i].va)
    /\ TopEntry(memory, log[i].va) = TopEntry(pre.memory, log[i].va)
    /\ SecondEntry(memory, log[i].va) = SecondEntry(pre.memory, log[i].va)

\* C4: with M = 1 and a non-zero top-level entry, the nibble checked is the top
\* four bits of the second-level entry E, and a successful translation of v
\* returns (E & 0x0fffffff) + (v & 0xffff), for every E and every page offset.
SecondLevelWalk ==
    \A i \in DOMAIN log :
        (Walked(i) /\ log[i].err = NoErr) =>
            /\ BitAnd(Nibble(log[i].va), 8) # 0
            /\ BitAnd(Nibble(log[i].va), log[i].perm) = log[i].perm
            /\ log[i].pa = add32(FrameBase(log[i].va), W(0, log[i].va.lo)).v

\* what the permission nibble p decides for an access that asks perm
Decision(p, perm) ==
    IF BitAnd(p, 8) = 0 THEN UsedFreePage
    ELSE IF BitAnd(p, perm) # perm THEN InvalidPermissions(p, perm)
    ELSE NoErr

\* C5: with M = 1, a translation that reaches a second-level entry with
\* permission nibble p fails with UsedFreePage iff (p & 8) = 0, otherwise with
\* InvalidPermissions(p, perm) iff (p & perm) # perm, and otherwise succeeds.
PermissionDecision ==
    \A i \in DOMAIN log :
        Walked(i) => log[i].err = Decision(Nibble(log[i].va), log[i].perm)

\* C6: once R is 1 it is 1 after every later step: no step that starts with
\* R = 1 ends with R = 0.
RingTrapdoor == (steps >= 1 /\ F_USER_RING \in pre.flags) => F_USER_RING \in flags

\* R was 1, a step ran opcode 0x04 (clear R), the next step ran opcode 0x02,
\* and R is still 1
RingStaysRaised ==
    /\ steps >= 2
    /\ F_USER_RING \in prev.pre.flags
    /\ prev.ins.opcode = 4
    /\ F_USER_RING \in pre.flags
    /\ ins.opcode = 2
    /\ F_USER_RING \in flags

\* the result the privilege fault would be
PrivilegeFault == <<"PrivilegeFault">>

\* C7: with R = 1, a step that executes clear-M (0x02), set-M (0x03), clear-R
\* (0x04) or set-R (0x05) returns a privilege fault from step() and leaves M
\* and R as they were.
PrivilegeFaultReturned ==
    (steps >= 1 /\ F_USER_RING \in pre.flags /\ ins.opcode \in {2, 3, 4, 5}) =>
        /\ res = PrivilegeFault
        /\ flags \cap {F_USER_RING, F_MEMMAP_ENABLE} = pre.flags \cap {F_USER_RING, F_MEMMAP_ENABLE}

\* C8: a step that starts with R = 1 leaves M as it was; M changes only in
\* steps that start with R = 0 and execute opcode 0x02 or 0x03.
MemmapEnableSystemOnly ==
    steps >= 1 =>
        /\ F_USER_RING \in pre.flags =>
               (F_MEMMAP_ENABLE \in flags <=> F_MEMMAP_ENABLE \in pre.flags)
        /\ (F_MEMMAP_ENABLE \in flags) # (F_MEMMAP_ENABLE \in pre.flags) =>
               F_USER_RING \notin pre.flags /\ ins.opcode \in {2, 3}

\* set-M executed in the user ring with M clear: M is still clear
UserRingSetMemmap ==
    /\ steps >= 1
    /\ F_USER_RING \in pre.flags
    /\ F_MEMMAP_ENABLE \notin pre.flags
    /\ ins.opcode = 3
    /\ F_MEMMAP_ENABLE \notin flags

\* C9: with R = 0 no access of a step (fetch, load, store, push, pop) fails
\* with InvalidPermissions, whatever the page's permission nibble.
SystemRingUnrestricted ==
    (steps >= 1 /\ F_USER_RING \notin pre.flags) =>
        /\ res[1] # "InvalidPermissions"
        /\ \A i \in DOMAIN log : log[i].err[1] # "InvalidPermissions"

\* the result the divide-by-zero fault would be
DivideByZero == <<"DivideByZero">>

\* C10: IDIV or IMOD with xs[x1] = 0 returns a divide-by-zero fault from
\* step(), with xs[x0] and the flags unchanged.
DivideByZeroFault ==
    ((Ran2(131) \/ Ran2(132)) /\ ent.xs[X1] = u32(0)) =>
        /\ res = DivideByZero
        /\ xs[X0] = ent.xs[X0]
        /\ flags = ent.flags

\* the last step returned Err(..) to its caller
Faulted == steps >= 1 /\ res # NoErr /\ ~IsPanic(res)

\* the last step entered a load whose destination is x register d: load_lit_int,
\* load_int or load_indirect_int
IntLoadInto(d) ==
    \/ ins.opcode \in 64 .. 127 /\ (ins.opcode \div 16) % 4 \in {0, 2} /\ ins.regs = <<d>>
    \/ ins.opcode = 148 /\ Len(ins.regs) = 2 /\ ins.regs[1] = d

\* the same for f register d: load_lit_float, load_float or load_indirect_float
FloatLoadInto(d) ==
    \/ ins.opcode \in 64 .. 127 /\ (ins.opcode \div 16) % 4 \in {1, 3} /\ ins.regs = <<d>>
    \/ ins.opcode = 149 /\ Len(ins.regs) = 2 /\ ins.regs[1] = d

\* C11 (as stated): a step that returns a fault leaves the flags word as it was
\* before the step, and a faulted load leaves its destination register
\* unchanged.
FaultLeavesFlagsAndDestination ==
    Faulted =>
        /\ flags = pre.flags
        /\ \A d \in 0 .. 15 :
               /\ IntLoadInto(d) => xs[d] = pre.xs[d]
               /\ FloatLoadInto(d) => fs[d] = pre.fs[d]

\* C11 (amended): the same, for a destination other than the PC.
FaultLeavesFlagsAndRegister ==
    Faulted =>
        /\ flags = pre.flags
        /\ \A d \in 0 .. 15 :
               /\ (IntLoadInto(d) /\ d # R_PC) => xs[d] = pre.xs[d]
               /\ FloatLoadInto(d) => fs[d] = pre.fs[d]

\* a load_int into x0 whose data read was refused, with flags set before it
FaultedLoad ==
    /\ Faulted
    /\ ins.opcode = 96
    /\ pre.flags \cap {F_ZERO, F_NEGATIVE, F_PARITY} = {}
    /\ \E i \in DOMAIN log : log[i].perm = READ /\ log[i].err = res
    /\ xs[0] = pre.xs[0]
    /\ xs[0] # u32(0)

\* the number of instruction bytes the last step fetched
Fetched == Cardinality({i \in DOMAIN log : log[i].perm = EXEC /\ log[i].err = NoErr})

\* C12: after a step that returns a fault, PC is its value at the start of the
\* step plus the number of instruction bytes fetched before the fault, also
\* when the fault is in a data access of CALL or RET.
PcAfterFault == Faulted => xs[R_PC] = add32(pre.xs[R_PC], u32(Fetched)).v

\* the same for every instruction but RET
PcAfterFaultExceptRet ==
    (Faulted /\ ins.opcode # 7) => xs[R_PC] = add32(pre.xs[R_PC], u32(Fetched)).v

\* the byte that memory image mem holds at backend index a
ByteAt(mem, a) == IF a \in DOMAIN mem THEN mem[a] ELSE 0

\* the last step ran with translation on from its start
Translating == steps >= 1 /\ F_MEMMAP_ENABLE \in pre.flags

\* entries i .. j of the log are translations that granted perm
Granted(i, j, perm) ==
    /\ j <= Len(log)
    /\ \A k \in i .. j : log[k].perm = perm /\ log[k].err = NoErr

\* the u32 that the bytes at the physical addresses of log entries i .. i + 3
\* spell, low byte first, in memory image mem
WordAt(mem, i) ==
    le32(address_read(mem, log[i].pa), address_read(mem, log[i + 1].pa),
         address_read(mem, log[i + 2].pa), address_read(mem, log[i + 3].pa))

\* log entries i .. j translate the consecutive virtual addresses from v on
Consecutive(i, j, v) == \A k \in i .. j : log[k].va = add32(v, u32(k - i)).v

\* every byte of memory that the last step changed is the physical address of
\* a translation that granted WRITE
WrittenThroughWrite ==
    \A a \in DOMAIN memory \cup DOMAIN pre.memory :
        ByteAt(memory, a) # ByteAt(pre.memory, a) =>
            \E i \in DOMAIN log :
                /\ log[i].perm = WRITE /\ log[i].err = NoErr
                /\ lt32(log[i].pa, u32(SIMPLE_ADDRESS_SIZE)) /\ Idx(log[i].pa) = a

\* the instruction bytes of the last step came through EXEC: every EXEC
\* translation is of the next address from the PC on, the opcode is the byte
\* the first one reached, and a register byte the byte the second one reached
FetchedThroughExec ==
    /\ \A i \in DOMAIN log : log[i].perm = EXEC =>
           /\ log[i].va = add32(pre.xs[R_PC], u32(i - 1)).v
           /\ \A k \in 1 .. i - 1 : log[k].perm = EXEC /\ log[k].err = NoErr
    /\ ins.opcode # -1 =>
           Granted(1, 1, EXEC) /\ ins.opcode = address_read(pre.memory, log[1].pa)
    /\ Len(ins.regs) = 2 =>
           /\ Granted(1, 2, EXEC)
           /\ ins.regs[1] * 16 + ins.regs[2] = address_read(pre.memory, log[2].pa)

\* a 32-bit load or store, a CALL or a RET that returned Ok made its data
\* accesses through READ (loads, RET) or WRITE (stores, CALL), at the address
\* its EXEC-fetched immediate or its address register names
DataThroughItsKind ==
    /\ (res = NoErr /\ ins.opcode \in 96 .. 111) =>
           /\ Len(log) = 9 /\ Granted(1, 5, EXEC) /\ Granted(6, 9, READ)
           /\ Consecutive(6, 9, WordAt(pre.memory, 2))
           /\ xs[ins.regs[1]] = WordAt(pre.memory, 6)
    /\ (res = NoErr /\ ins.opcode \in 192 .. 207) =>
           /\ Len(log) = 9 /\ Granted(1, 5, EXEC) /\ Granted(6, 9, WRITE)
           /\ Consecutive(6, 9, WordAt(pre.memory, 2))
    /\ (res = NoErr /\ ins.opcode = 148) =>
           /\ Len(log) = 6 /\ Granted(1, 2, EXEC) /\ Granted(3, 6, READ)
           /\ Consecutive(3, 6, ent.xs[ins.regs[2]])
           /\ xs[ins.regs[1]] = WordAt(pre.memory, 3)
    /\ (res = NoErr /\ ins.opcode = 150) =>
           /\ Len(log) = 6 /\ Granted(1, 2, EXEC) /\ Granted(3, 6, WRITE)
           /\ Consecutive(3, 6, ent.xs[ins.regs[2]])
    /\ (res = NoErr /\ ins.opcode = 6) =>
           /\ Len(log) = 13 /\ Granted(1, 5, EXEC) /\ Granted(6, 13, WRITE)
           /\ xs[R_PC] = WordAt(pre.memory, 2)
    /\ (res = NoErr /\ ins.opcode = 7) =>
           /\ Len(log) = 9 /\ Granted(1, 1, EXEC) /\ Granted(2, 9, READ)
           /\ Consecutive(2, 9, add32(pre.xs[R_BASE], u32(1)).v)

\* C13: with M = 1, every instruction byte of a step comes through a
\* translation that granted EXEC, every data byte read by a load or by RET
\* through one that granted READ, every byte written by a store or by CALL
\* through one that granted WRITE, and no step changes a memory byte whose
\* write translation failed.
PermissionPerAccessKind ==
    Translating => WrittenThroughWrite /\ FetchedThroughExec /\ DataThroughItsKind

\* a store_int whose write translation was refused: memory is as it was
RefusedStore ==
    /\ Translating
    /\ ins.opcode = 192
    /\ Len(log) = 6 /\ Granted(1, 5, EXEC)
    /\ log[6].perm = WRITE /\ log[6].err = res /\ res # NoErr
    /\ pre.xs[0] # u32(0)
    /\ memory = pre.memory

\* the last step returned, and what it decoded was no CALL (0x06), RET (0x07)
\* or branch (0x08 .. 0x17)
RanNoJump == steps >= 1 /\ ~IsPanic(res) /\ ins.opcode \notin 6 .. 23

\* C14: in every step that executes no branch, CALL or RET, PC at the end is
\* PC at the start plus the number of instruction bytes fetched, for every
\* opcode and every register operand.
PcMonotone == RanNoJump => xs[R_PC] = add32(pre.xs[R_PC], u32(Fetched)).v

\* the same for the instructions whose first register operand is not x13
PcMonotoneOtherRegisters ==
    (RanNoJump /\ (ins.regs = <<>> \/ ins.regs[1] # R_PC)) =>
        xs[R_PC] = add32(pre.xs[R_PC], u32(Fetched)).v

\* the condition bits Z, V, C, N, P, A, F
CondBits == {F_ZERO, F_OVERFLOW, F_CARRY, F_NEGATIVE, F_PARITY, F_NAN, F_INFINITE}

\* the last step completed an arithmetic, logic, shift, move or load
\* instruction: a load with its register in the opcode, or one of the
\* two-register operations up to load_indirect_float
RanFlagSetter ==
    /\ steps >= 1 /\ res = NoErr
    /\ \/ ins.opcode \in 64 .. 127
       \/ ins.opcode \in 128 .. 149 /\ Len(ins.regs) = 2

\* IADD, ISUB, BSL and BSR read the entry carry
ReadsCarry == ins.opcode \in {128, 129, 137, 138}

\* the condition bits that the update rule of the last instruction writes
WrittenBits ==
    CASE ins.opcode \in {128, 129} -> {F_ZERO, F_OVERFLOW, F_CARRY, F_NEGATIVE, F_PARITY}
      [] ins.opcode \in {137, 138} -> {F_ZERO, F_CARRY, F_NEGATIVE, F_PARITY}
      [] ins.opcode \in {133, 134, 135, 136, 143, 145, 147, 149} ->
             {F_ZERO, F_NEGATIVE, F_NAN, F_INFINITE}
      [] ins.opcode \in 64 .. 127 /\ (ins.opcode \div 16) % 2 = 1 ->
             {F_ZERO, F_NEGATIVE, F_NAN, F_INFINITE}
      [] OTHER -> {F_ZERO, F_NEGATIVE, F_PARITY}

\* a second hart: as the hart was before the last step, but with condition
\* bits c at entry (the entry carry kept where the instruction reads it)
TwinFlags(c) ==
    (pre.flags \ CondBits)
    \cup (IF ReadsCarry THEN (c \ {F_CARRY}) \cup (pre.flags \cap {F_CARRY}) ELSE c)

Twin(c) ==
    [xs |-> pre.xs, fs |-> pre.fs, flags |-> TwinFlags(c), memmap |-> pre.memmap,
     memory |-> pre.memory, log |-> <<>>, ins |-> NoIns,
     ent |-> [xs |-> pre.xs, fs |-> pre.fs, flags |-> TwinFlags(c)]]

\* C15 (as stated): after an arithmetic, logic, shift, move or load
\* instruction the condition bits Z, V, C, N, P, A, F are the same on two harts
\* that executed it on the same operands (and the same entry C where it is
\* read), whatever their condition bits were before.
FlagsFunctionOfResult ==
    RanFlagSetter =>
        \A c \in {{}, CondBits} :
            step(Twin(c)).m.flags \cap CondBits = flags \cap CondBits

\* C15 (amended): the condition bits that the instruction's update rule writes
\* are the same on the two harts, and the other bits of the flags word are as
\* they were before the instruction.
WrittenFlagsFunctionOfResult ==
    RanFlagSetter =>
        /\ \A c \in {{}, CondBits} :
               /\ step(Twin(c)).err = NoErr
               /\ step(Twin(c)).m.flags \cap WrittenBits = flags \cap WrittenBits
        /\ flags \ WrittenBits = pre.flags \ WrittenBits

\* an AND entered with Z and V set and a result that is not 0: Z is cleared
\* and V is still set
AndKeepsOverflow ==
    /\ Ran2(139)
    /\ res = NoErr
    /\ {F_ZERO, F_OVERFLOW} \subseteq pre.flags
    /\ xs[X0] # u32(0)
    /\ F_ZERO \notin flags
    /\ F_OVERFLOW \in flags

\* the translations for WRITE of the step before the last, and those for READ
\* of the last step
Writes == SelectSeq(step(PrevHart).m.log, LAMBDA e : e.perm = WRITE)
Reads  == SelectSeq(log, LAMBDA e : e.perm = READ)

IsStoreInt(i) == i.opcode \in 192 .. 207 \/ (i.opcode = 150 /\ Len(i.regs) = 2)
IsLoadInt(i)  == i.opcode \in 96 .. 111 \/ (i.opcode = 148 /\ Len(i.regs) = 2)

\* the last two steps were a 32 bit store that returned Ok and a 32 bit load
\* that returned Ok, both at the same aligned address
StoreThenLoad ==
    /\ steps >= 2
    /\ prev.res = NoErr /\ res = NoErr
    /\ IsStoreInt(prev.ins) /\ IsLoadInt(ins)
    /\ Len(Writes) = 4 /\ Len(Reads) = 4
    /\ Writes[1].va = Reads[1].va
    /\ Reads[1].va.lo % 4 = 0

\* the value stored: the source register as the store left it
Stored == pre.xs[prev.ins.regs[1]]

\* the load put the stored value in its destination, and after the store the
\* four physical bytes held the value low byte first
RoundTrip ==
    /\ xs[ins.regs[1]] = Stored
    /\ \A k \in 1 .. 4 : address_read(pre.memory, Writes[k].pa) = byte_of(Stored, k - 1)

\* the four bytes of the store and of the load are the same bytes of the backend
SameBackedBytes ==
    \A k \in 1 .. 4 :
        /\ Writes[k].pa = Reads[k].pa
        /\ lt32(Writes[k].pa, u32(SIMPLE_ADDRESS_SIZE))

\* C16 (as stated): a 32 bit store of v to an aligned address p that returns Ok,
\* followed by a 32 bit load from p that returns Ok, puts v in the destination
\* register, and the bytes are laid out little-endian; with M = 0 and with M = 1.
StoreLoadRoundTrip == StoreThenLoad => RoundTrip

\* C16 (amended): the same, for an address whose four bytes the store and the
\* load translate to the same physical addresses inside the backend.
StoreLoadRoundTripBacked == (StoreThenLoad /\ SameBackedBytes) => RoundTrip

\* the value 0xa0b0c0d0 stored with translation off and read back
StoredAndLoaded ==
    /\ StoreThenLoad /\ SameBackedBytes
    /\ F_MEMMAP_ENABLE \notin pre.flags
    /\ Stored = W(41136, 49360)
    /\ xs[1] = W(41136, 49360)
    /\ pre.xs[1] # W(41136, 49360)
    /\ address_read(memory, Reads[1].pa) = 208
    /\ address_read(memory, Reads[4].pa) = 160
    /\ address_read(prev.pre.memory, Reads[1].pa) = 17

\* the last step was a BSL or a BSR
Shifted == steps >= 1 /\ res = NoErr /\ (Ran2(137) \/ Ran2(138))

\* the bit that a shift by one pushes out of the original xs[x0]: bit 31 for
\* BSL, bit 0 for BSR
OutgoingBit == IF ins.opcode = 137 THEN bit32(ent.xs[X0], 31) ELSE bit32(ent.xs[X0], 0)

\* C17: after BSL(x0, x1) and BSR(x0, x1), for any register values, flag C is 1
\* only if the shift amount xs[x1] is exactly 1, and then C equals the original
\* bit 31 of xs[x0] for BSL and the original bit 0 of xs[x0] for BSR; for every
\* other shift amount C is 0 after the instruction, whatever it was at entry.
ShiftCarryRule ==
    Shifted =>
        (F_CARRY \in flags <=> (ent.xs[X1] = u32(1) /\ OutgoingBit = 1))

\* a BSL by one of a value with bit 31 set, entered with C clear, and the
\* carry it leaves
ShiftedOutCarry ==
    /\ Shifted
    /\ ins.opcode = 137
    /\ X0 # X1
    /\ ent.xs[X1] = u32(1)
    /\ bit32(ent.xs[X0], 31) = 1
    /\ F_CARRY \notin ent.flags
    /\ F_CARRY \in flags

\* the number whose bit i - lo is b[i], for i in lo .. hi
RECURSIVE Pack(_, _, _)
Pack(b, lo, hi) == IF lo > hi THEN 0 ELSE b[lo] + 2 * Pack(b, lo + 1, hi)

\* the u32 whose bits are b[0] .. b[31]
FromBits(b) == W(Pack(b, 16, 31), Pack(b, 0, 15))

\* (a << n) mod 2^32 and a >> n for n < 32, bit by bit
ShlBits(a, n) == FromBits([i \in 0 .. 31 |-> IF i >= n THEN bit32(a, i - n) ELSE 0])
ShrBits(a, n) == FromBits([i \in 0 .. 31 |-> IF i + n <= 31 THEN bit32(a, i + n) ELSE 0])

\* w with c OR'd into bit 0
OrBit0(w, c) == IF c = 1 /\ w.lo % 2 = 0 THEN W(w.hi, w.lo + 1) ELSE w

\* what BSL and BSR are specified to leave in xs[x0]
ShiftResult ==
    OrBit0(IF ~lt32(ent.xs[X1], u32(32)) THEN u32(0)
           ELSE IF ins.opcode = 137 THEN ShlBits(ent.xs[X0], ent.xs[X1].lo)
           ELSE ShrBits(ent.xs[X0], ent.xs[X1].lo),
           CarryIn)

\* C18: for all a = xs[x0], n = xs[x1] and entry carry C, BSL leaves
\* xs[x0] = ((a << n) mod 2^32) OR C when n < 32 and C when n >= 32, BSR leaves
\* (a >> n) OR C when n < 32 and C when n >= 32, and Z, N and P are set from
\* that 32 bit result.
ShiftSaturation ==
    Shifted =>
        /\ xs[X0] = ShiftResult
        /\ F_ZERO \in flags <=> ShiftResult = u32(0)
        /\ F_NEGATIVE \in flags <=> ShiftResult.hi >= 32768
        /\ F_PARITY \in flags <=> ShiftResult.lo % 2 = 1

\* a BSL of 0xffffffff by 32 entered with C set: the result is 1, with P set
\* and Z and N clear
ShiftedAllOut ==
    /\ Shifted
    /\ ins.opcode = 137
    /\ ent.xs[X0] = W(65535, 65535)
    /\ ent.xs[X1] = u32(32)
    /\ CarryIn = 1
    /\ xs[X0] = u32(1)
    /\ flags \cap {F_ZERO, F_NEGATIVE, F_PARITY} = {F_PARITY}

\* the sum of the byte products of a and b that weigh 256^k
Column(a, b, k) ==
    LET t(i) == byte_of(a, i) * byte_of(b, k - i)
    IN  t(0) + (IF k >= 1 THEN t(1) ELSE 0)
        + (IF k >= 2 THEN t(2) ELSE 0) + (IF k >= 3 THEN t(3) ELSE 0)

\* (a * b) mod 2^32: the four low bytes of the column sums with their carries
MulLow(a, b) ==
    LET k0 == Column(a, b, 0)
        k1 == Column(a, b, 1) + k0 \div 256
        k2 == Column(a, b, 2) + k1 \div 256
        k3 == Column(a, b, 3) + k2 \div 256
    IN  le32(k0 % 256, k1 % 256, k2 % 256, k3 % 256)

Product == MulLow(ent.xs[X0], ent.xs[X1])

\* IMUL completed and left the wrapped product, Z, N and P set from it, and
\* the other flags as they were
Wrapped ==
    /\ res = NoErr
    /\ xs[X0] = Product
    /\ F_ZERO \in flags <=> Product = u32(0)
    /\ F_NEGATIVE \in flags <=> Product.hi >= 32768
    /\ F_PARITY \in flags <=> Product.lo % 2 = 1
    /\ flags \ {F_ZERO, F_NEGATIVE, F_PARITY} = ent.flags \ {F_ZERO, F_NEGATIVE, F_PARITY}

\* C19: for all 32 bit a = xs[x0] and b = xs[x1], IMUL(x0, x1) completes
\* normally and leaves xs[x0] = (a * b) mod 2^32 with Z, N, P set from that
\* result and V, C unchanged; a product of 2^32 or more is not an error.
ImulWraps == Ran2(130) => Wrapped

\* the same in a build without overflow checks
ImulWrapsUnchecked == (Ran2(130) /\ ~overflow_checks) => Wrapped

\* the same for a product below 2^32
ImulWrapsSmall == (Ran2(130) /\ ~mul32(ent.xs[X0], ent.xs[X1]).ovf) => Wrapped

\* the flags Z, V, C, N, P, A, F, M in the order of the branch sub-opcodes
BranchFlags == <<F_ZERO, F_OVERFLOW, F_CARRY, F_NEGATIVE, F_PARITY, F_NAN, F_INFINITE,
                 F_MEMMAP_ENABLE>>

\* the last step was a BRT (0x08..0x0f) or a BRF (0x10..0x17) that completed
Branched == steps >= 1 /\ res = NoErr /\ ins.opcode \in 8 .. 23

\* the flag the branch tests, and whether its predicate held at entry
Tested == BranchFlags[(ins.opcode % 8) + 1]
Taken  == IF ins.opcode < 16 THEN Tested \in pre.flags ELSE Tested \notin pre.flags

\* C20: a BRT_f or BRF_f step, for f in Z, V, C, N, P, A, F, M, fetches a 4 byte
\* little-endian target after the opcode; if the predicate holds (f = 1 for BRT,
\* f = 0 for BRF) PC ends equal to the target, otherwise PC ends at the opcode
\* address plus 5; no register other than PC, no flag and no memory byte changes.
ConditionalBranch ==
    Branched =>
        /\ Len(log) = 5
        /\ Granted(1, 5, EXEC)
        /\ Consecutive(1, 5, pre.xs[R_PC])
        /\ xs[R_PC] = IF Taken THEN WordAt(pre.memory, 2)
                      ELSE add32(pre.xs[R_PC], u32(5)).v
        /\ \A i \in 0 .. 15 : i # R_PC => xs[i] = pre.xs[i]
        /\ fs = pre.fs
        /\ flags = pre.flags
        /\ memmap = pre.memmap
        /\ memory = pre.memory

\* a BRT_Z entered with Z set that went to its target 0x0000af42
BranchTaken ==
    /\ Branched
    /\ ins.opcode = 8
    /\ F_ZERO \in pre.flags
    /\ pre.xs[R_PC] = u32(CodeBase)
    /\ xs[R_PC] = W(0, 44866)

\* the last step was a CALL that completed
Called == steps >= 1 /\ ins.opcode = 6 /\ res = NoErr

\* byte k of the frame in the order it is pushed: the four bytes of the entry
\* BASE, then the four bytes of the PC behind the immediate, low byte first
FrameByte(k) ==
    IF k < 4 THEN byte_of(pre.xs[R_BASE], k)
    ELSE byte_of(add32(pre.xs[R_PC], u32(5)).v, k - 4)

\* the translation of the k-th push: entries 6 .. 13 of the log follow the five
\* fetches
Push(k) == log[6 + k]

\* the backend holds the physical address of push k, and no later push has it
Lands(k) ==
    /\ lt32(Push(k).pa, u32(SIMPLE_ADDRESS_SIZE))
    /\ \A j \in k + 1 .. 7 : Push(j).pa # Push(k).pa

\* C21: a successful CALL with entry SP = s, BASE = b and post-immediate PC = r
\* writes the bytes of b low byte first to s, s-1, s-2, s-3, then the bytes of r
\* low byte first to s-4 .. s-7, and ends with SP = s-8, BASE = s-8 and PC = the
\* little-endian target of the instruction stream; no other memory byte changes.
CallFrameLayout ==
    Called =>
        /\ Len(log) = 13
        /\ Granted(1, 5, EXEC)
        /\ Granted(6, 13, WRITE)
        /\ \A k \in 0 .. 7 :
               /\ Push(k).va = sub32(pre.xs[R_SP], u32(k)).v
               /\ Lands(k) => address_read(memory, Push(k).pa) = FrameByte(k)
        /\ \A a \in DOMAIN memory \cup DOMAIN pre.memory :
               ByteAt(memory, a) # ByteAt(pre.memory, a) =>
                   \E k \in 0 .. 7 : Lands(k) /\ Idx(Push(k).pa) = a
        /\ xs[R_SP] = sub32(pre.xs[R_SP], u32(8)).v
        /\ xs[R_BASE] = sub32(pre.xs[R_SP], u32(8)).v
        /\ xs[R_PC] = WordAt(pre.memory, 2)

\* a CALL from 0x1234 with SP = 0xbfc8 and BASE = 0xbfc0 and the frame it left:
\* c0 bf 00 00 downward from 0xbfc8, 39 12 00 00 downward from 0xbfc4
CalledWithFrame ==
    /\ Called
    /\ pre.xs[R_PC] = u32(CodeBase)
    /\ pre.xs[R_SP] = W(0, 49096)
    /\ pre.xs[R_BASE] = W(0, 49088)
    /\ ByteAt(pre.memory, 49096) = 255
    /\ ByteAt(memory, 49096) = 192
    /\ ByteAt(memory, 49095) = 191
    /\ ByteAt(memory, 49092) = 57
    /\ ByteAt(memory, 49091) = 18
    /\ xs[R_SP] = W(0, 49088)
    /\ xs[R_BASE] = W(0, 49088)

\* the opcode of the last step is one the decoder does not name: 0x04 and
\* 0x18..0x3f of the no-operand form, 0x1a..0x3f of the two-register form
UnknownNoOperand    == ins.opcode \in {4} \cup (24 .. 63)
UnknownTwoRegisters == ins.opcode \in 154 .. 191
Unknown == steps >= 1 /\ (UnknownNoOperand \/ UnknownTwoRegisters)

\* the step returned Ok and changed nothing but the PC, which went on by the
\* length of the instruction
NoOp ==
    /\ res = NoErr
    /\ xs[R_PC] = add32(pre.xs[R_PC], u32(IF UnknownNoOperand THEN 1 ELSE 2)).v
    /\ \A i \in 0 .. 15 : i # R_PC => xs[i] = pre.xs[i]
    /\ fs = pre.fs
    /\ flags = pre.flags
    /\ memmap = pre.memmap
    /\ memory = pre.memory

\* C22 (as stated): a step whose opcode is an undefined sub-opcode returns Ok
\* and changes nothing except PC, which advances by 1 for the no-operand form
\* and by 2 for the two-register form, whose register byte is still fetched.
UnknownOpcodeNoOp == Unknown => NoOp

\* C22 (amended): the same for a step all of whose fetches were granted.
UnknownOpcodeFetchedNoOp == (Unknown /\ Fetched = Len(log)) => NoOp

\* the two-register opcode 0x9a with the register byte 0x01, entered with flags
\* set, went by as two bytes
UnknownWentBy ==
    /\ Unknown
    /\ ins = [opcode |-> 154, regs |-> <<0, 1>>]
    /\ res = NoErr
    /\ pre.flags # {}
    /\ pre.xs[0] # u32(0)
    /\ xs[R_PC] = add32(pre.xs[R_PC], u32(2)).v

\* the last step was a store, of either form, that did not panic
ImmediateStore == ins.opcode \in 192 .. 255
IndirectStore  == ins.opcode \in 150 .. 153 /\ Len(ins.regs) = 2
RanStore == steps >= 1 /\ ~IsPanic(res) /\ (ImmediateStore \/ IndirectStore)

\* the number of bytes the store is specified to write
StoreWidth ==
    CASE ins.opcode \in (208 .. 223) \cup {151} -> 2
      [] ins.opcode \in (224 .. 239) \cup {152} -> 1
      [] OTHER -> 4

\* the value stored: the float register for the float stores, else xs[x0]
StoreValue ==
    IF ins.opcode \in (240 .. 255) \cup {153} THEN fs[ins.regs[1]] ELSE xs[ins.regs[1]]

\* the address stored to: the immediate behind the opcode, or the address register
StoreAddress ==
    IF ImmediateStore THEN WordAt(pre.memory, 2) ELSE ent.xs[ins.regs[2]]

\* the translations for WRITE that the last step was granted
Written == SelectSeq(log, LAMBDA e : e.perm = WRITE /\ e.err = NoErr)

\* C23: a successful store_byte (immediate or indirect) to address p changes at
\* most the byte at p, to the low 8 bits of xs[x0]; a successful store_short
\* changes at most the bytes at p and p+1 (low 16 bits, little-endian); every
\* other memory byte, every register other than PC and the whole flags word are
\* unchanged by any store.
StoreWidthFrame ==
    RanStore =>
        /\ Len(Written) <= StoreWidth
        /\ res = NoErr => Len(Written) = StoreWidth
        /\ \A k \in 1 .. Len(Written) :
               Written[k].va = add32(StoreAddress, u32(k - 1)).v
        /\ \A a \in DOMAIN memory \cup DOMAIN pre.memory :
               ByteAt(memory, a) # ByteAt(pre.memory, a) =>
                   \E k \in 1 .. Len(Written) :
                       /\ lt32(Written[k].pa, u32(SIMPLE_ADDRESS_SIZE))
                       /\ Idx(Written[k].pa) = a
                       /\ ByteAt(memory, a) = byte_of(StoreValue, k - 1)
        /\ \A i \in 0 .. 15 : i # R_PC => xs[i] = pre.xs[i]
        /\ fs = pre.fs
        /\ flags = pre.flags
        /\ memmap = pre.memmap

\* a store_byte of x0 = 0xdeadbeef to 0xaf42, which held 07: it holds ef, and
\* the bytes around it are as they were
StoredOneByte ==
    /\ RanStore
    /\ ins.opcode = 224
    /\ res = NoErr
    /\ StoreAddress = W(0, 44866)
    /\ xs[0] = W(57005, 48879)
    /\ ByteAt(pre.memory, 44866) = 7
    /\ ByteAt(memory, 44866) = 239
    /\ ByteAt(memory, 44867) = 0
    /\ ByteAt(memory, 44865) = 0

\* the i-th translation of the last step was made with M = 1 and found the
\* value 0 in the four bytes at memmap + (v >> 24) .. memmap + (v >> 24) + 3
FreeTop(i) ==
    /\ steps >= 1
    /\ F_MEMMAP_ENABLE \in pre.flags
    /\ ~table_entry([memory |-> pre.memory], pre.memmap, u32(log[i].va.hi \div 256)).ovf
    /\ TopEntry(pre.memory, log[i].va) = u32(0)
    /\ TopEntry(memory, log[i].va) = u32(0)

\* the registers that the instruction itself changes before an access of its
\* own can fail: the PC by the fetches, SP by the pushes of a CALL, BASE by the
\* pops of a RET
OwnRegisters ==
    {R_PC} \cup (IF ins.opcode = 6 THEN {R_SP} ELSE {})
           \cup (IF ins.opcode = 7 THEN {R_BASE} ELSE {})

\* C24: with M = 1 and the four little-endian bytes at memmap + (v >> 24) ..
\* memmap + (v >> 24) + 3 forming 0, every access to v, for READ, WRITE or EXEC,
\* fails with UsedFreePage, and the failed translation changes no register and
\* no memory byte.
FreeTopLevelEntry ==
    \A i \in DOMAIN log :
        FreeTop(i) =>
            /\ log[i].err = UsedFreePage
            /\ res = UsedFreePage
            /\ i = Len(log)
            /\ i = 1 => xs = pre.xs /\ memory = pre.memory
            /\ \A r \in (0 .. 15) \ OwnRegisters : xs[r] = pre.xs[r]
            /\ fs = pre.fs /\ flags = pre.flags /\ memmap = pre.memmap
            /\ WrittenThroughWrite

\* a load from 0x020400bc, whose top-level entry is 0 while that of the code is
\* not: the read fails with UsedFreePage and x0 is as it was
FreePageRead ==
    /\ Len(log) = 6
    /\ FreeTop(6)
    /\ ~FreeTop(1)
    /\ ins.opcode = 96
    /\ log[6].perm = READ
    /\ log[6].va = W(516, 188)
    /\ res = UsedFreePage
    /\ xs[0] = W(57005, 48879)

\* the last step ran with translation off
Untranslated == steps >= 1 /\ F_MEMMAP_ENABLE \notin pre.flags

\* the u32 that the four bytes of the backend at a .. a + 3 spell, low byte first
MemWord(mem, a) ==
    le32(address_read(mem, a), address_read(mem, add32(a, u32(1)).v),
         address_read(mem, add32(a, u32(2)).v), address_read(mem, add32(a, u32(3)).v))

\* the immediate behind the opcode of the last step, read at the PC itself
Immediate == MemWord(pre.memory, add32(pre.xs[R_PC], u32(1)).v)

\* C25: with M = 0, for every virtual address v and every requested permission
\* of READ, WRITE and EXEC, translation returns v itself and never fails,
\* whatever memmap, R and the memory contents are.
MmuIdentity ==
    Untranslated =>
        /\ \A i \in DOMAIN log : log[i].err = NoErr /\ log[i].pa = log[i].va
        /\ ~Faulted
        /\ (res = NoErr /\ ins.opcode \in 96 .. 111) =>
               xs[ins.regs[1]] = MemWord(pre.memory, Immediate)
        /\ (res = NoErr /\ ins.opcode \in 192 .. 207
                /\ lt32(Immediate, u32(SIMPLE_ADDRESS_SIZE - 3))) =>
               MemWord(memory, Immediate) = xs[ins.regs[1]]

\* after M was cleared in the system ring with memmap still naming the tables,
\* a load of 0x000400bc read the bytes at physical 0x000400bc, which are 0, and
\* not the 0x12345678 that the address translates to
IdentityLoad ==
    /\ Untranslated
    /\ steps = 2
    /\ prev.ins.opcode = 2
    /\ F_MEMMAP_ENABLE \in prev.pre.flags
    /\ pre.memmap = TopTable
    /\ ins.opcode = 96
    /\ Immediate = W(4, 188)
    /\ res = NoErr
    /\ pre.xs[0] = W(57005, 48879)
    /\ xs[0] = u32(0)

\* the last step was a RET that completed
Returned == steps >= 1 /\ ins.opcode = 7 /\ res = NoErr

\* the hart before the last step with s in SP
OtherSp(s) ==
    [xs |-> [pre.xs EXCEPT ![R_SP] = s], fs |-> pre.fs, flags |-> pre.flags,
     memmap |-> pre.memmap, memory |-> pre.memory, log |-> <<>>, ins |-> NoIns,
     ent |-> [xs |-> [pre.xs EXCEPT ![R_SP] = s], fs |-> pre.fs, flags |-> pre.flags]]

\* the byte of the backend that the k-th pop read, at BASE + k
Popped(k) == address_read(pre.memory, Reads[k].pa)

\* C26: the PC, BASE and SP that a successful RET produces depend only on BASE
\* at entry and on the eight memory bytes at BASE+1 .. BASE+8: PC is the bytes at
\* BASE+1 .. BASE+4 most significant first, the new BASE those at BASE+5 ..
\* BASE+8, and SP is the entry BASE + 8; two states that differ only in SP at
\* entry yield the same state after RET.
RetUnwindsFromBase ==
    Returned =>
        /\ Len(Reads) = 8
        /\ \A k \in 1 .. 8 : Reads[k].va = add32(pre.xs[R_BASE], u32(k)).v
        /\ xs[R_PC] = le32(Popped(4), Popped(3), Popped(2), Popped(1))
        /\ xs[R_BASE] = le32(Popped(8), Popped(7), Popped(6), Popped(5))
        /\ xs[R_SP] = add32(pre.xs[R_BASE], u32(8)).v
        /\ \A s \in {u32(0), W(0, 49096), W(65535, 65535)} :
               /\ step(OtherSp(s)).err = NoErr
               /\ step(OtherSp(s)).m.xs = xs
               /\ step(OtherSp(s)).m.fs = fs
               /\ step(OtherSp(s)).m.flags = flags
               /\ step(OtherSp(s)).m.memmap = memmap
               /\ step(OtherSp(s)).m.memory = memory

\* a RET entered with SP = 7 and BASE = 0xbfc0 over the frame 00 00 12 39 / 00 00
\* bf ff: PC = 0x1239, BASE = 0xbfff and SP = 0xbfc8
ReturnedFromBase ==
    /\ Returned
    /\ pre.xs[R_SP] = W(0, 7)
    /\ pre.xs[R_BASE] = W(0, 49088)
    /\ xs[R_PC] = W(0, 4665)
    /\ xs[R_BASE] = W(0, 49151)
    /\ xs[R_SP] = W(0, 49096)

\* the flag bits that no instruction names: 0 .. 10 (interrupt mask and
\* last-interrupt index) and 20 .. 31
ReservedBits == (0 .. 10) \cup (20 .. 31)

\* C27: after any sequence of step() calls from any state, memmap and the flag
\* bits 0 .. 10 and 20 .. 31 have the values they had initially; no opcode
\* writes them.
ReservedStateFrame ==
    /\ steps >= 1 =>
           /\ memmap = pre.memmap
           /\ flags \cap ReservedBits = pre.flags \cap ReservedBits
    /\ steps >= 2 =>
           /\ memmap = prev.pre.memmap
           /\ flags \cap ReservedBits = prev.pre.flags \cap ReservedBits

\* two steps, a store and a load that set Z, N or P, from a state with memmap
\* = 0x2000 and the bits 3 and 27 set
ReservedKept ==
    /\ steps = 2
    /\ prev.pre.memmap = TopTable
    /\ prev.pre.flags = {3, 27}
    /\ flags # prev.pre.flags
    /\ {3, 27} \subseteq flags
    /\ memmap = TopTable
====
